---- MODULE Spec2Model ----
(***************************************************************************)
(* Model of the MaxFlash signal pipeline: the signal validator             *)
(* (quick_start_code.md, signal_validator.py), the Cython indicator        *)
(* kernels (cython_ext/feature_calc.pyx), the realistic labelling loop and *)
(* the walk-forward backtest protocol.                                     *)
(*                                                                         *)
(* Units.  Floating-point quantities are carried as scaled integers:       *)
(*   rsi                in tenths of a point     (32.8  -> 328)            *)
(*   macd_histogram     in units of 0.0001       (0.0005 -> 5)             *)
(*   price_change_24h   in hundredths of a %     (-30   -> -3000)          *)
(*   volume_ratio       in hundredths            (0.3   -> 30)             *)
(*   confidence         in whole points                                    *)
(*   kernel outputs     in units of 1/Scale                                *)
(***************************************************************************)
EXTENDS Integers, Sequences, FiniteSets, TLC

VARIABLES
    vin,      \* validator: the arguments of the first validate_and_fix call
    vcalls,   \* validator: the dicts returned so far; call k+1 is made on
              \* the final signal and confidence of result k
    kp,       \* kernels: the price series (array indexed from 0)
    kq,       \* kernels: the same series with bars after ke rewritten
    ke,       \* kernels: the evaluation index
    kw,       \* kernels: the window / period argument
    kmut,     \* kernels: how many future bars have been rewritten
    kout,     \* kernels: the last kernel run, with its result on kp and kq
    wf,       \* walk-forward backtester: configuration, state and progress
    din,      \* rule table: the arguments of determine_direction
    dcalls,   \* rule table: the tuples returned so far
    rin,      \* risk manager: its configuration and the trade it is given
    rcalls,   \* risk manager: the outcomes returned so far
    cstore,   \* indicator cache: the stored (key, value) pairs
    cproc,    \* indicator cache: each caller's request and position
    clog,     \* indicator cache: the computations run, in order
    zn,       \* structural zone: kind, range, validity state, age
    zlog,     \* structural zone: the steps taken since it was created
    pin,      \* example pipeline: the indicator state and raw confidence
    pout,     \* example pipeline: the rule outcome, then the validation
    lfile,    \* signal log: the CSV file (absent, or its rows)
    lproc,    \* signal log: each process's position and completed calls
    sin,      \* scoring: the feature matrix and the weight vector
    sout,     \* scoring: the scores returned so far
    dp,       \* deployment script: mode, environment, position, output
    sy        \* file-sync script: position, counters, what happened

vars == <<vin, vcalls, kp, kq, ke, kw, kmut, kout, wf, din, dcalls,
          rin, rcalls, cstore, cproc, clog, zn, zlog,
          pin, pout, lfile, lproc, sin, sout, dp, sy>>
valVars == <<vin, vcalls>>
kerVars == <<kp, kq, ke, kw, kmut, kout>>
dirVars == <<din, dcalls>>
\* The variables of the components added after the first three.
riskVars == <<rin, rcalls>>
cacheVars == <<cstore, cproc, clog>>
zoneVars == <<zn, zlog>>
baseVars == <<valVars, kerVars, wf>>
pipeVars == <<pin, pout>>
logVars == <<lfile, lproc>>
scoreVars == <<sin, sout>>
lateVars == <<pipeVars, logVars, scoreVars, dp, sy>>
auxVars == <<dirVars, riskVars, cacheVars, zoneVars, lateVars>>
earlyVars == <<baseVars, dirVars, riskVars, cacheVars, zoneVars>>

\* Bounds of the kernel model.
MaxLen == 5          \* longest price series
MaxPrice == 2        \* rewritten prices range over 0..MaxPrice
MaxWindow == 3       \* window / period arguments range over 1..MaxWindow
MaxMutations == 1    \* rewrites of future bars per experiment
\* Bound of the cache model.
MaxCallers == 2      \* concurrent callers of the cached calculation
\* Bounds of the zone model.
MaxBars == 4         \* candles delivered after the zone was created
\* Bound of the signal-log model.
MaxLoggers == 2      \* processes that log to the same file
MaxLogs == 2         \* log_signal calls per process
\* Bounds of the scoring model.
MaxSignals == 2      \* rows of the feature matrix
MaxFeatures == 2     \* columns of the feature matrix
\* Bounds of the walk-forward model.
MaxDays == 8         \* history lengths 0..MaxDays for the short configurations
MaxSpan == 2         \* short configurations: train, test, step in 1..MaxSpan
\* Fixed-point scale of the kernel outputs (value = output / Scale).
Scale == 100

\* How many times validate_and_fix is applied to its own result.
MaxCalls == 2

Max(a, b) == IF a >= b THEN a ELSE b
Min(a, b) == IF a <= b THEN a ELSE b

\* Python int(): truncation toward zero (TLA+ \div rounds toward -infinity).
PyIntHalf(x) == IF x >= 0 THEN x \div 2 ELSE -((-x) \div 2)

(***************************************************************************)
(* SignalQualityChecker.validate_and_fix                                   *)
(***************************************************************************)

\* The sampled argument values: every threshold of the checks with its
\* neighbours, and the values of the documented examples (GUN, BTC, SAND).
Symbols == {"SAND/USDT"}
RawDirections == {"BUY", "SELL", "NEUTRAL"}
Confidences == {-10, 0, 20, 45, 50, 70, 71, 73, 75, 90, 100, 130}
RsiValues == {150, 170, 250, 328, 349, 350, 400, 500, 520, 550, 551, 650, 750, 751, 850}
MacdValues == {-15, -6, -5, 0, 5, 6, 10, 15}
PriceChanges == {-3500, -3001, -3000, -661, 3919}
VolumeRatios == {20, 29, 30, 90, 120}

\* result = {...}: the dict as first built (lines 332-341)
\* (Mutation: the dict built with the incoming confidence already clamped.)
initial_result_clamped(symbol, signal_direction, confidence) ==
    [symbol              |-> symbol,
     original_signal     |-> signal_direction,
     original_confidence |-> Max(0, Min(100, confidence)),
     final_signal        |-> signal_direction,
     final_confidence    |-> confidence,
     was_inverted        |-> FALSE,
     issues              |-> << >>,
     is_valid            |-> TRUE]
initial_result(symbol, signal_direction, confidence) ==
    [symbol              |-> symbol,
     original_signal     |-> signal_direction,
     original_confidence |-> confidence,
     final_signal        |-> signal_direction,
     final_confidence    |-> confidence,
     was_inverted        |-> FALSE,
     issues              |-> << >>,
     is_valid            |-> TRUE]

\* The conditions of the six checks, as written in the if/elif chain.
\* (Mutation: check 1 with the rule producer's oversold level 30.)
check1_cond_level30(signal_direction, rsi) ==
    signal_direction = "SELL" /\ rsi < 300
check1_cond(signal_direction, rsi) == signal_direction = "SELL" /\ rsi < 350
\* (Mutation: check 2 with the level 25 in place of 75.)
check2_cond_level25(signal_direction, rsi) ==
    signal_direction = "BUY" /\ rsi > 250
check2_cond(signal_direction, rsi) == signal_direction = "BUY" /\ rsi > 750
check3_cond(signal_direction, macd_histogram) ==
    signal_direction = "SELL" /\ macd_histogram > 5
check4_cond(rsi, confidence) == 500 <= rsi /\ rsi <= 550 /\ confidence > 70
check5_cond(price_change_24h) == price_change_24h < -3000
check6_cond(volume_ratio) == volume_ratio < 30

\* (Mutation: the inversion floor dropped to 0.)
inversion_confidence_nofloor(confidence) == Max(confidence - 20, 0)
\* max(confidence - 20, 30), the confidence an inversion assigns
inversion_confidence(confidence) == Max(confidence - 20, 30)

\* (Mutation: the final clamp without its upper bound.)
clamp_confidence_noupper(c) == Max(0, c)
\* max(0, min(100, final_confidence)), the last statement before return
clamp_confidence(c) == Max(0, Min(100, c))

\* The if/elif chain: the first check whose condition holds is the only one
\* that runs.  Issues are recorded by check number.
apply_checks(r, signal_direction, confidence, rsi, macd_histogram, price_change_24h, volume_ratio) ==
    IF check1_cond(signal_direction, rsi) THEN
        [r EXCEPT !.issues = Append(@, 1),
                  !.final_signal = "BUY",
                  !.final_confidence = inversion_confidence(confidence),
                  !.was_inverted = TRUE,
                  !.is_valid = FALSE]
    ELSE IF check2_cond(signal_direction, rsi) THEN
        [r EXCEPT !.issues = Append(@, 2),
                  !.final_signal = "SELL",
                  !.final_confidence = inversion_confidence(confidence),
                  !.was_inverted = TRUE,
                  !.is_valid = FALSE]
    ELSE IF check3_cond(signal_direction, macd_histogram) THEN
        [r EXCEPT !.issues = Append(@, 3),
                  !.final_confidence = @ - 20]
    ELSE IF check4_cond(rsi, confidence) THEN
        [r EXCEPT !.issues = Append(@, 4),
                  !.final_confidence = 50]
    ELSE IF check5_cond(price_change_24h) THEN
        [r EXCEPT !.issues = Append(@, 5),
                  !.final_signal = "WAIT",
                  !.final_confidence = 0,
                  !.is_valid = FALSE]
    ELSE IF check6_cond(volume_ratio) THEN
        [r EXCEPT !.issues = Append(@, 6),
                  !.final_confidence = PyIntHalf(@)]
    ELSE r

validate_and_fix(symbol, signal_direction, confidence, rsi, macd_histogram, price_change_24h, volume_ratio) ==
    LET r == apply_checks(initial_result(symbol, signal_direction, confidence),
                          signal_direction, confidence, rsi, macd_histogram,
                          price_change_24h, volume_ratio)
    IN  [r EXCEPT !.final_confidence = clamp_confidence(@)]

ValidatorArgs ==
    [symbol : Symbols, signal_direction : RawDirections,
     confidence : Confidences, rsi : RsiValues, macd_histogram : MacdValues,
     price_change_24h : PriceChanges, volume_ratio : VolumeRatios]

Validate(a) ==
    validate_and_fix(a.symbol, a.signal_direction, a.confidence, a.rsi,
                     a.macd_histogram, a.price_change_24h, a.volume_ratio)

\* No binding of the labelling loop's free name: no labelling was run.
NoBinding == [kind |-> "none", value |-> 0]

\* The kernel variables while the validator is exercised.
KernelsIdle ==
    /\ kp = << >> /\ kq = << >> /\ ke = 0 /\ kw = 1 /\ kmut = 0
    /\ kout = [kernel |-> "none", arg |-> NoBinding,
               a |-> << >>, b |-> << >>]

\* The validator variables while another component is exercised.
ValidatorIdle ==
    /\ vin = [symbol |-> "SAND/USDT", signal_direction |-> "NEUTRAL",
              confidence |-> 0, rsi |-> 500, macd_histogram |-> 0,
              price_change_24h |-> 0, volume_ratio |-> 100]
    /\ vcalls = << >>

NoRange == <<0, 0>>
\* The backtester before a run is configured.
BacktesterIdle ==
    wf = [train_days |-> 0, test_days |-> 0, step_days |-> 0, days |-> 0,
          state |-> "Idle", window |-> 0, fitted |-> NoRange, bar |-> 0,
          evaluated |-> << >>, cancel |-> FALSE, history |-> << >>]

\* The rule table before determine_direction is called.
DirectionIdle ==
    /\ din = [rsi |-> 500, macd_histogram |-> 0, macd_line |-> 0,
              signal_line |-> 0, price_trend |-> "neutral", confidence |-> 0]
    /\ dcalls = << >>

\* The risk manager before a trade is sized.
RiskIdle ==
    /\ rin = [risk_per_trade |-> 1, max_position_pct |-> 100,
              max_symbol_pct |-> 100, min_risk_reward |-> 15,
              direction |-> "BUY", entry_price |-> 100,
              stop_loss_price |-> 98, take_profit_price |-> 104,
              account_balance |-> 0, symbol_exposure |-> 0]
    /\ rcalls = << >>

Callers == 1..MaxCallers
NoRequest == [symbol |-> "", timeframe |-> "", length |-> 0, last |-> 0]
NoValue == [symbol |-> "", timeframe |-> "", length |-> 0, last |-> 0]
\* The cache empty, no caller inside the cached calculation.
CacheIdle ==
    /\ cstore = {}
    /\ cproc = [c \in Callers |->
                   [pc |-> "idle", req |-> NoRequest, hit |-> FALSE,
                    result |-> NoValue]]
    /\ clog = << >>

\* No zone under observation.
ZonesIdle ==
    /\ zn = [kind |-> "none", side |-> "bullish", low |-> 0, high |-> 0,
             state |-> "active", age |-> 0]
    /\ zlog = << >>

\* The example pipeline before it is run.
PipelineIdle ==
    /\ pin = [rsi |-> 500, macd_histogram |-> 0, macd_line |-> 0,
              signal_line |-> 0, price_trend |-> "neutral", confidence |-> 0,
              price_change_24h |-> 0, volume_ratio |-> 100]
    /\ pout = << >>

Loggers == 1..MaxLoggers
\* No signal log and no process logging.
LoggerIdle ==
    /\ lfile = [exists |-> FALSE, rows |-> << >>]
    /\ lproc = [p \in Loggers |-> [pc |-> "idle", logged |-> 0]]

\* The scorers before they are called.
ScoringIdle ==
    /\ sin = [features_matrix |-> << >>, weights |-> << >>]
    /\ sout = << >>

ServiceUnits ==
    {"maxflash-bot", "maxflash-dashboard", "maxflash-retrain.timer"}
\* The deployment script not started.
DeployIdle ==
    dp = [mode |-> "full", pc |-> "idle", exit |-> -1,
          ran |-> << >>, printed |-> << >>,
          restart |-> [u \in ServiceUnits |-> "not_run"],
          active |-> [u \in ServiceUnits |-> "not_run"]]

\* The file-sync script not started.
SyncIdle ==
    sy = [pc |-> "idle", use_sshpass |-> FALSE, index |-> 0,
          SUCCESS |-> 0, FAILED |-> 0, exit |-> -1,
          copied |-> 0, unmade |-> 0,
          last |-> [file |-> "", found |-> FALSE, mkdir |-> -1, scp |-> -1,
                    returned |-> -1]]

LateIdle ==
    /\ PipelineIdle /\ LoggerIdle /\ ScoringIdle
    /\ DeployIdle /\ SyncIdle

\* The later components while one of the first three is exercised.
AuxIdle == DirectionIdle /\ RiskIdle /\ CacheIdle /\ ZonesIdle /\ LateIdle

InitValidator ==
    /\ vin \in ValidatorArgs
    /\ vcalls = << >>
    /\ KernelsIdle
    /\ BacktesterIdle
    /\ AuxIdle

\* checker.validate_and_fix(...) on a raw signal
ValidateAndFix ==
    /\ vcalls = << >>
    /\ vcalls' = << Validate(vin) >>
    /\ UNCHANGED <<vin, kerVars, wf, auxVars>>

\* checker.validate_and_fix(...) again, on the final signal and confidence
\* of the previous result, with the same indicator state
Revalidate ==
    /\ Len(vcalls) >= 1
    /\ Len(vcalls) < MaxCalls
    /\ LET prev == vcalls[Len(vcalls)]
       IN  vcalls' = Append(vcalls,
               Validate([vin EXCEPT !.signal_direction = prev.final_signal,
                                    !.confidence = prev.final_confidence]))
    /\ UNCHANGED <<vin, kerVars, wf, auxVars>>

NextValidator == ValidateAndFix \/ Revalidate

SpecValidator == InitValidator /\ [][NextValidator]_vars

(***************************************************************************)
(* cython_ext/feature_calc.pyx                                             *)
(***************************************************************************)

\* A typed memoryview double[:] of length n: a function on 0..n-1.
ArrLen(arr) == Cardinality(DOMAIN arr)
Arrays(n, vals) == [0..(n - 1) -> vals]

\* sum of f(lo), ..., f(hi - 1), accumulated in loop order
RECURSIVE SumRange(_, _, _)
SumRange(f, lo, hi) ==
    IF hi <= lo THEN 0 ELSE SumRange(f, lo, hi - 1) + f[hi - 1]

\* integer square root (np.sqrt in fixed point), by bisection:
\* lo * lo <= x < hi * hi throughout
RECURSIVE ISqrtFrom(_, _, _)
ISqrtFrom(x, lo, hi) ==
    IF hi - lo <= 1 THEN lo
    ELSE LET mid == (lo + hi) \div 2
         IN  IF mid * mid <= x THEN ISqrtFrom(x, mid, hi)
             ELSE ISqrtFrom(x, lo, mid)
ISqrt(x) == IF x <= 0 THEN 0 ELSE ISqrtFrom(x, 0, x + 1)

\* What a kernel call produces: an array, or the exception that ends it.
Returned(arr) == [err |-> "none", val |-> arr]
Raised(e) == [err |-> e, val |-> << >>]

\* np.zeros(m): ValueError ("negative dimensions are not allowed") for m < 0
ZerosFails(m) == m < 0

calculate_moving_average(prices, window) ==
    LET n == ArrLen(prices)
        m == n - window + 1
    IN  IF ZerosFails(m) THEN Raised("ValueError")
        ELSE IF m > 0 /\ window = 0 THEN Raised("ZeroDivisionError")
        ELSE Returned([i \in 0..(m - 1) |->
                 (SumRange([j \in 0..(window - 1) |-> prices[i + j]],
                           0, window) * Scale) \div window])

\* returns[i] = (prices[i + 1] - prices[i]) / prices[i], in fixed point
price_returns(prices) ==
    [i \in 0..(ArrLen(prices) - 2) |->
        ((prices[i + 1] - prices[i]) * Scale) \div prices[i]]

\* volatility[i]: the sample deviation of returns[i .. i + window - 2]
volatility_at(returns, i, window) ==
    LET mean_return ==
            SumRange([j \in 0..(window - 2) |-> returns[i + j]],
                     0, window - 1) \div (window - 1)
        sum_sq ==
            SumRange([j \in 0..(window - 2) |->
                         (returns[i + j] - mean_return)
                           * (returns[i + j] - mean_return)],
                     0, window - 1)
    IN  ISqrt(sum_sq \div (window - 2))

calculate_volatility(prices, window) ==
    LET n == ArrLen(prices)
        m == n - window
    IN  IF ZerosFails(n - 1) \/ ZerosFails(m) THEN Raised("ValueError")
        ELSE IF \E i \in 0..(n - 2) : prices[i] = 0
             THEN Raised("ZeroDivisionError")
        ELSE IF m > 0 /\ (window = 1 \/ window = 2)
             THEN Raised("ZeroDivisionError")
        ELSE Returned([i \in 0..(m - 1) |->
                 volatility_at(price_returns(prices), i, window)])

\* gains[i] and losses[i] of deltas[i] = prices[i + 1] - prices[i]
price_gains(prices) ==
    [i \in 0..(ArrLen(prices) - 2) |->
        IF prices[i + 1] - prices[i] > 0 THEN prices[i + 1] - prices[i] ELSE 0]
price_losses(prices) ==
    [i \in 0..(ArrLen(prices) - 2) |->
        IF prices[i + 1] - prices[i] > 0 THEN 0
        ELSE -(prices[i + 1] - prices[i])]

\* rsi[i] = 100 - 100 / (1 + avg_gain / avg_loss) over deltas i .. i+period-1
\* (= 100 * sum_gain / (sum_gain + sum_loss)), or 100 when avg_loss == 0
rsi_at(gains, losses, i, period) ==
    LET sum_gain == SumRange([j \in 0..(period - 1) |-> gains[i + j]],
                             0, period)
        sum_loss == SumRange([j \in 0..(period - 1) |-> losses[i + j]],
                             0, period)
    IN  IF sum_loss = 0 THEN 100 * Scale
        ELSE (100 * Scale * sum_gain) \div (sum_gain + sum_loss)

calculate_rsi(prices, period) ==
    LET n == ArrLen(prices)
        m == n - period
    IN  IF ZerosFails(n - 1) \/ ZerosFails(m) THEN Raised("ValueError")
        ELSE IF m > 0 /\ period = 0 THEN Raised("ZeroDivisionError")
        ELSE Returned([i \in 0..(m - 1) |->
                 rsi_at(price_gains(prices), price_losses(prices), i, period)])

\* Index of the output element whose input window ends at bar e.
ma_index(e, window) == e - window + 1
volatility_index(e, window) == e - window + 1
rsi_index(e, period) == e - period

\* The element of a kernel result at an index: the value, the exception
\* that replaced the whole result, or "absent" when the index is outside.
ElementAt(res, idx) ==
    IF res.err # "none" THEN <<res.err, 0>>
    ELSE IF idx \in DOMAIN res.val THEN <<"value", res.val[idx]>>
    ELSE <<"absent", 0>>

\* Candle closes are positive; a rewritten bar may hold any value in
\* 0..MaxPrice, 0 included.
Closes == {1, 2}
PriceSeries == UNION {Arrays(n, Closes) : n \in 0..MaxLen}

InitKernels ==
    /\ kp \in PriceSeries
    /\ kq = kp
    /\ ke \in 0..(MaxLen - 1)
    /\ ke < ArrLen(kp) \/ (ArrLen(kp) = 0 /\ ke = 0)
    /\ kw \in 1..MaxWindow
    /\ kmut = 0
    /\ kout = [kernel |-> "none", arg |-> NoBinding,
               a |-> << >>, b |-> << >>]
    /\ ValidatorIdle
    /\ BacktesterIdle
    /\ AuxIdle

\* The property test's move, before the kernel is run on both series:
\* rewrite one bar after the evaluation index in the second copy.
MutateFuture ==
    /\ kout.kernel = "none"
    /\ kmut < MaxMutations
    /\ \E i \in (ke + 1)..(ArrLen(kq) - 1), v \in 0..MaxPrice :
          /\ v # kq[i]
          /\ kq' = [kq EXCEPT ![i] = v]
    /\ kmut' = kmut + 1
    /\ UNCHANGED <<kp, ke, kw, kout, valVars, wf, auxVars>>

\* One kernel is run per experiment, on the original and on the rewritten
\* series; arg is what the labelling loop's free name is bound to.
RunKernelWith(name, arg, ra, rb) ==
    /\ kout.kernel = "none"
    /\ kout' = [kernel |-> name, arg |-> arg, a |-> ra, b |-> rb]
    /\ UNCHANGED <<kp, kq, ke, kw, kmut, valVars, wf, auxVars>>

RunKernel(name, ra, rb) == RunKernelWith(name, NoBinding, ra, rb)

CalculateMovingAverage ==
    RunKernel("calculate_moving_average",
              calculate_moving_average(kp, kw),
              calculate_moving_average(kq, kw))

CalculateVolatility ==
    RunKernel("calculate_volatility",
              calculate_volatility(kp, kw), calculate_volatility(kq, kw))

CalculateRsi ==
    RunKernel("calculate_rsi", calculate_rsi(kp, kw), calculate_rsi(kq, kw))

(***************************************************************************)
(* ml/labeling_fixed.py: create_realistic_labels                           *)
(*                                                                         *)
(* Only the labelling loop is in the sources.  The indicator columns it    *)
(* indexes (rsi, macd, bb_position) are built here as the spec describes   *)
(* them: the value at bar i is computed from the bars up to i, with the    *)
(* repository's own kernels and short periods.  The loop's fourth name,    *)
(* signal, is read without an index and is bound nowhere in the fragment:  *)
(* whatever it holds is fixed before the loop runs, and the loop is        *)
(* followed for each kind of value it can hold, a number or, like the      *)
(* three names beside it, a column.                                        *)
(***************************************************************************)

\* for i in range(50, n)
LabelWarmup == 50

LabelRsiPeriod == 2
MacdFastPeriod == 1
MacdSlowPeriod == 2
BbWindow == 3

\* A column value: <<available, value>>; an unavailable value is NaN and
\* fails every comparison.
NaN == <<FALSE, 0>>
Num(x) == <<TRUE, x>>

\* the element of a kernel result for the window that ends at bar i
column_value(r, idx) ==
    IF r.err = "none" /\ idx \in DOMAIN r.val THEN Num(r.val[idx]) ELSE NaN

\* the bars of the frame that the loop visits: range(50, n)
LabelledBars(close) == LabelWarmup..(ArrLen(close) - 1)

\* the length closes that end at bar i
window_ending(close, i, length) ==
    [j \in 0..(length - 1) |-> close[i - length + 1 + j]]

\* Each column at the bars the loop visits; the value at bar i is the
\* kernel's value for the window of closes that ends at bar i.
rsi_column(close) ==
    [i \in LabelledBars(close) |->
        column_value(
            calculate_rsi(window_ending(close, i, LabelRsiPeriod + 1),
                          LabelRsiPeriod),
            rsi_index(LabelRsiPeriod, LabelRsiPeriod))]

macd_column(close) ==
    [i \in LabelledBars(close) |->
        LET fi == column_value(
                      calculate_moving_average(
                          window_ending(close, i, MacdFastPeriod),
                          MacdFastPeriod),
                      ma_index(MacdFastPeriod - 1, MacdFastPeriod))
            wi == column_value(
                      calculate_moving_average(
                          window_ending(close, i, MacdSlowPeriod),
                          MacdSlowPeriod),
                      ma_index(MacdSlowPeriod - 1, MacdSlowPeriod))
        IN  IF fi[1] /\ wi[1] THEN Num(fi[2] - wi[2]) ELSE NaN]

\* position of the close between the low and the high band of the window
bb_position_column(close) ==
    [i \in LabelledBars(close) |->
        LET w == {close[j] : j \in (i - BbWindow + 1)..i}
            lo == CHOOSE x \in w : \A y \in w : x <= y
            hi == CHOOSE x \in w : \A y \in w : x >= y
        IN  IF hi = lo THEN NaN
            ELSE Num(((close[i] - lo) * Scale) \div (hi - lo))]

\* The indicator columns of a frame of n bars that the loop indexes.
IndicatorColumns(close) ==
    [n           |-> ArrLen(close),
     rsi         |-> rsi_column(close),
     macd        |-> macd_column(close),
     bb_position |-> bb_position_column(close)]

\* The names the loop reads: the columns, and what `signal` is bound to.
loop_names(columns, signal) ==
    [n           |-> columns.n,
     rsi         |-> columns.rsi,
     macd        |-> columns.macd,
     signal      |-> signal,
     bb_position |-> columns.bb_position]

\* `signal` is not indexed by the bar: one number for every bar, or a
\* column, which a number cannot be compared with.
SignalBindings ==
    {[kind |-> "number", value |-> -60], [kind |-> "number", value |-> 0],
     [kind |-> "column", value |-> 0]}

\* The frame that is labelled: the bars before the first labelled bar, at
\* a constant close, followed by the series.
label_frame(series) ==
    [i \in 0..(LabelWarmup + ArrLen(series) - 1) |->
        IF i < LabelWarmup THEN 2 ELSE series[i - LabelWarmup]]

\* `and` is lazy: current_macd > signal is evaluated when current_rsi < 30
\* holds, and raises TypeError when signal is a column
comparison_raises(df, i) ==
    /\ df.signal.kind = "column"
    /\ df.rsi[i][1] /\ df.rsi[i][2] < 30 * Scale

\* current_rsi < 30 and current_macd > signal and current_bb_pos < 0.2
is_buy_bar(df, i) ==
    LET current_rsi == df.rsi[i]
        current_macd == df.macd[i]
        current_bb_pos == df.bb_position[i]
    IN  /\ current_rsi[1] /\ current_rsi[2] < 30 * Scale
        /\ df.signal.kind = "number"
        /\ current_macd[1] /\ current_macd[2] > df.signal.value
        /\ current_bb_pos[1] /\ 10 * current_bb_pos[2] < 2 * Scale

\* for i in range(50, n): labels[i] = BUY when the bar qualifies; the other
\* bars keep the initial label.  When the comparison raises at a bar the
\* loop ends there with the error: val is then the labels array as the
\* loop left it, that bar and the later ones not labelled.
create_realistic_labels(df) ==
    LET raising == {i \in LabelWarmup..(df.n - 1) : comparison_raises(df, i)}
        stop == IF raising = {} THEN df.n
                ELSE CHOOSE i \in raising : \A j \in raising : i <= j
        labels == [i \in 0..(df.n - 1) |->
                      IF i >= LabelWarmup /\ i < stop /\ is_buy_bar(df, i)
                      THEN "BUY" ELSE "HOLD"]
    IN  [err |-> IF raising = {} THEN "none" ELSE "TypeError",
         val |-> labels]

CreateRealisticLabels ==
    LET original == IndicatorColumns(label_frame(kp))
        rewritten == IndicatorColumns(label_frame(kq))
    IN  \E signal \in SignalBindings :
            RunKernelWith("create_realistic_labels", signal,
                create_realistic_labels(loop_names(original, signal)),
                create_realistic_labels(loop_names(rewritten, signal)))

NextKernels ==
    \/ MutateFuture
    \/ CalculateMovingAverage
    \/ CalculateVolatility
    \/ CalculateRsi
    \/ CreateRealisticLabels

SpecKernels == InitKernels /\ [][NextKernels]_vars

(***************************************************************************)
(* scripts/run_walk_forward_backtest.py                                    *)
(*                                                                         *)
(* The script is not among the sources; only its configuration and the     *)
(* window diagram are.  The window arithmetic and the state machine are    *)
(* those of the specification (section 4.6), in days.                      *)
(***************************************************************************)

\* WALK_FORWARD_CONFIG: train 3 months, test 1 month, roll forward 1 month,
\* over the 180 days of history of TRAINING_CONFIG
WALK_FORWARD_CONFIG == [train_days |-> 90, test_days |-> 30, step_days |-> 30]
TRAINING_CONFIG == [days_back |-> 180]

\* (Mutation: the old methodology, every window trained on all the data.)
TrainRangeAllData(c, w) == <<0, c.days>>
\* Window w as half-open day ranges <<first, end>>.
TrainRange(c, w) == <<w * c.step_days, w * c.step_days + c.train_days>>
TestRange(c, w) ==
    <<TrainRange(c, w)[2], TrainRange(c, w)[2] + c.test_days>>
\* Window w exists when its test range fits in the history.
WindowExists(c, w) ==
    w * c.step_days + c.train_days + c.test_days <= c.days

WalkForwardRuns ==
    {[train_days |-> WALK_FORWARD_CONFIG.train_days,
      test_days  |-> WALK_FORWARD_CONFIG.test_days,
      step_days  |-> WALK_FORWARD_CONFIG.step_days,
      days       |-> TRAINING_CONFIG.days_back]}
    \cup [train_days : 1..MaxSpan, test_days : 1..MaxSpan,
          step_days : 1..MaxSpan, days : 0..MaxDays]

InitBacktester ==
    /\ \E r \in WalkForwardRuns :
          wf = [train_days |-> r.train_days, test_days |-> r.test_days,
                step_days |-> r.step_days, days |-> r.days,
                state |-> "Idle", window |-> 0, fitted |-> NoRange,
                bar |-> 0, evaluated |-> << >>, cancel |-> FALSE,
                history |-> << >>]
    /\ ValidatorIdle
    /\ KernelsIdle
    /\ AuxIdle

\* Idle -> TrainFitting(first window), or straight to Aggregating when the
\* history is too short for one window
StartBacktest ==
    /\ wf.state = "Idle"
    /\ wf' = [wf EXCEPT !.state = IF WindowExists(wf, 0) THEN "TrainFitting"
                                  ELSE "Aggregating",
                        !.window = 0]
    /\ UNCHANGED <<valVars, kerVars, auxVars>>

\* TrainFitting(window) -> Evaluating(window): fit the classifier and its
\* calibration map on the window's train range
FitWindow ==
    /\ wf.state = "TrainFitting"
    /\ wf' = [wf EXCEPT !.state = "Evaluating",
                        !.fitted = TrainRange(wf, wf.window),
                        !.bar = TestRange(wf, wf.window)[1],
                        !.history = Append(@, wf.window)]
    /\ UNCHANGED <<valVars, kerVars, auxVars>>

\* Evaluating(window): run the pipeline on the next bar of the test range
\* with the fitted model
EvaluateBar ==
    /\ wf.state = "Evaluating"
    /\ wf.bar < TestRange(wf, wf.window)[2]
    /\ wf' = [wf EXCEPT !.evaluated = << [bar |-> wf.bar,
                                          window |-> wf.window,
                                          model |-> wf.fitted] >>,
                        !.bar = @ + 1]
    /\ UNCHANGED <<valVars, kerVars, auxVars>>

\* The window boundary: cancellation is honoured here; otherwise roll
\* forward by step_days, or aggregate after the last window
FinishWindow ==
    /\ wf.state = "Evaluating"
    /\ wf.bar = TestRange(wf, wf.window)[2]
    /\ wf' = IF ~wf.cancel /\ WindowExists(wf, wf.window + 1)
             THEN [wf EXCEPT !.state = "TrainFitting", !.window = @ + 1]
             ELSE [wf EXCEPT !.state = "Aggregating"]
    /\ UNCHANGED <<valVars, kerVars, auxVars>>

\* Aggregating -> Done
Aggregate ==
    /\ wf.state = "Aggregating"
    /\ wf' = [wf EXCEPT !.state = "Done"]
    /\ UNCHANGED <<valVars, kerVars, auxVars>>

\* Cooperative cancellation, requested at any time during a run
RequestCancel ==
    /\ wf.state \in {"TrainFitting", "Evaluating"}
    /\ ~wf.cancel
    /\ wf' = [wf EXCEPT !.cancel = TRUE]
    /\ UNCHANGED <<valVars, kerVars, auxVars>>

NextBacktester ==
    \/ StartBacktest
    \/ FitWindow
    \/ EvaluateBar
    \/ FinishWindow
    \/ Aggregate
    \/ RequestCancel

SpecBacktester == InitBacktester /\ [][NextBacktester]_vars

(***************************************************************************)
(* SignalDirection.determine_direction                                     *)
(*                                                                         *)
(* macd_line and signal_line are in units of 0.0001 like macd_histogram    *)
(* (0.002 -> 20).  The third component of the returned tuple, the reason   *)
(* string, is carried as the name of the return statement that built it.   *)
(***************************************************************************)

\* The sampled arguments: the levels 30 and 70 with their neighbours, the
\* crossover levels +-0.002 with theirs, and the documented examples.
DirRsiValues == {150, 170, 299, 300, 301, 328, 551, 699, 700, 701, 850}
DirHistograms == {-21, -20, -1, 0, 1, 5, 10, 15, 20, 21}
DirMacdLines == {-5, 2, 5, 10}
DirSignalLines == {-5, -3, 5}
PriceTrends == {"uptrend", "downtrend", "neutral"}
DirConfidences == {55}

\* return "<direction>", +<adjustment>, f"<reason>"
Outcome(direction, adj, reason) ==
    [direction |-> direction, confidence_adj |-> adj, reason |-> reason]

\* (Mutation: the oversold rule without its momentum boost.)
oversold_outcome_flat(macd_histogram, macd_line, signal_line) ==
    Outcome("BUY", 10, "oversold")
\* The body of `if rsi < 30:`
oversold_outcome(macd_histogram, macd_line, signal_line) ==
    IF macd_histogram > 0 THEN Outcome("BUY", 20, "oversold_strong")
    ELSE IF macd_line > signal_line THEN Outcome("BUY", 15, "oversold_cross")
    ELSE Outcome("BUY", 10, "oversold")

\* The body of `elif rsi > 70:`
overbought_outcome(macd_histogram, macd_line, signal_line) ==
    IF macd_histogram < 0 THEN Outcome("SELL", 20, "overbought_strong")
    ELSE IF macd_line < signal_line
        THEN Outcome("SELL", 15, "overbought_cross")
    ELSE Outcome("SELL", 10, "overbought")

\* (Mutation: the trend confirmations tried before the MACD crossovers.)
determine_direction_trend_first(rsi, macd_histogram, macd_line, signal_line, price_trend, confidence) ==
    IF rsi < 300 THEN
        oversold_outcome(macd_histogram, macd_line, signal_line)
    ELSE IF rsi > 700 THEN
        overbought_outcome(macd_histogram, macd_line, signal_line)
    ELSE IF price_trend = "uptrend" /\ macd_histogram > 0 /\ rsi < 700 THEN
        Outcome("BUY", 10, "uptrend")
    ELSE IF price_trend = "downtrend" /\ macd_histogram < 0 /\ rsi > 300 THEN
        Outcome("SELL", 10, "downtrend")
    ELSE IF /\ macd_histogram > 20 /\ macd_line > signal_line
            /\ 300 <= rsi /\ rsi <= 700 THEN
        Outcome("BUY", 15, "bullish_cross")
    ELSE IF /\ macd_histogram < -20 /\ macd_line < signal_line
            /\ 300 <= rsi /\ rsi <= 700 THEN
        Outcome("SELL", 15, "bearish_cross")
    ELSE
        Outcome("NEUTRAL", 0, "no_clear_signal")
\* The if/elif chain of determine_direction.
determine_direction(rsi, macd_histogram, macd_line, signal_line, price_trend, confidence) ==
    IF rsi < 300 THEN
        oversold_outcome(macd_histogram, macd_line, signal_line)
    ELSE IF rsi > 700 THEN
        overbought_outcome(macd_histogram, macd_line, signal_line)
    ELSE IF /\ macd_histogram > 20 /\ macd_line > signal_line
            /\ 300 <= rsi /\ rsi <= 700 THEN
        Outcome("BUY", 15, "bullish_cross")
    ELSE IF /\ macd_histogram < -20 /\ macd_line < signal_line
            /\ 300 <= rsi /\ rsi <= 700 THEN
        Outcome("SELL", 15, "bearish_cross")
    ELSE IF price_trend = "uptrend" /\ macd_histogram > 0 /\ rsi < 700 THEN
        Outcome("BUY", 10, "uptrend")
    ELSE IF price_trend = "downtrend" /\ macd_histogram < 0 /\ rsi > 300 THEN
        Outcome("SELL", 10, "downtrend")
    ELSE
        Outcome("NEUTRAL", 0, "no_clear_signal")

DirectionArgs ==
    [rsi : DirRsiValues, macd_histogram : DirHistograms,
     macd_line : DirMacdLines, signal_line : DirSignalLines,
     price_trend : PriceTrends, confidence : DirConfidences]

Direction(a) ==
    determine_direction(a.rsi, a.macd_histogram, a.macd_line, a.signal_line,
                        a.price_trend, a.confidence)

InitDirection ==
    /\ din \in DirectionArgs
    /\ dcalls = << >>
    /\ ValidatorIdle
    /\ KernelsIdle
    /\ BacktesterIdle
    /\ RiskIdle /\ CacheIdle /\ ZonesIdle /\ LateIdle

\* SignalDirection.determine_direction(...)
DetermineDirection ==
    /\ dcalls = << >>
    /\ dcalls' = << Direction(din) >>
    /\ UNCHANGED <<din, baseVars, lateVars, riskVars, cacheVars, zoneVars>>

NextDirection == DetermineDirection

SpecDirection == InitDirection /\ [][NextDirection]_vars


(***************************************************************************)
(* RiskManager.calculate_position_size and trade validation                *)
(*                                                                         *)
(* Units.  risk_per_trade and the exposure caps are in percent of equity   *)
(* (0.01 -> 1), min_risk_reward in tenths (1.5 -> 15), prices and          *)
(* the balance in whole currency units, the position size in units of      *)
(* 1/SizeScale of the asset.                                               *)
(***************************************************************************)

SizeScale == 100
Percent == 100

\* The sampled configurations and trades; RiskManager(risk_per_trade=0.01)
\* with entry 100, stop 98 and balance 10000 is the documented call.
RiskPerTrade == {1, 2}
MaxPositionPcts == {10, 100}
MaxSymbolPcts == {50, 100}
MinRiskRewards == {15}
TradeDirections == {"BUY", "SELL"}
EntryPrices == {98, 100, 102}
StopPrices == {98, 100, 102}
TargetPrices == {94, 100, 104, 106}
Balances == {1000, 10000}
SymbolExposures == {0, 4000}

Accepted(size) == [status |-> "accepted", size |-> << size >>]
Rejected(why) == [status |-> "rejected", size |-> << >>, why |-> why]

\* (Mutation: the distance taken as |entry - stop| for either direction.)
stop_distance_abs(direction, entry_price, stop_loss_price) ==
    Max(entry_price - stop_loss_price, stop_loss_price - entry_price)
\* The distance from entry to stop in the adverse direction.
stop_distance(direction, entry_price, stop_loss_price) ==
    IF direction = "BUY" THEN entry_price - stop_loss_price
    ELSE stop_loss_price - entry_price

\* The distance from entry to target in the favourable direction.
reward_distance(direction, entry_price, take_profit_price) ==
    IF direction = "BUY" THEN take_profit_price - entry_price
    ELSE entry_price - take_profit_price

\* (equity x risk-per-trade fraction) / stop distance, rounded down
risk_sized(account_balance, risk_per_trade, distance) ==
    (account_balance * risk_per_trade * SizeScale)
        \div (Percent * distance)

\* The largest size whose value at entry is the given share of equity less
\* what is already held.
exposure_cap(account_balance, pct, held, entry_price) ==
    Max(0, ((account_balance * pct - held * Percent) * SizeScale)
               \div (Percent * entry_price))

\* (Mutation: the cap taken as the size.)
capped_size_takes_cap(size, cap) == cap
\* A cap applied to a size.
capped_size(size, cap) == Min(size, cap)

\* Trade validation, then sizing, then the per-trade and per-symbol caps.
calculate_position_size(r) ==
    LET d == stop_distance(r.direction, r.entry_price, r.stop_loss_price)
        g == reward_distance(r.direction, r.entry_price,
                             r.take_profit_price)
    IN  IF d <= 0 THEN Rejected("stop_distance")
        ELSE IF 10 * g < r.min_risk_reward * d THEN Rejected("risk_reward")
        ELSE Accepted(
                 capped_size(
                     capped_size(
                         risk_sized(r.account_balance, r.risk_per_trade, d),
                         exposure_cap(r.account_balance, r.max_position_pct,
                                      0, r.entry_price)),
                     exposure_cap(r.account_balance, r.max_symbol_pct,
                                  r.symbol_exposure, r.entry_price)))

RiskArgs ==
    [risk_per_trade : RiskPerTrade, max_position_pct : MaxPositionPcts,
     max_symbol_pct : MaxSymbolPcts, min_risk_reward : MinRiskRewards,
     direction : TradeDirections, entry_price : EntryPrices,
     stop_loss_price : StopPrices, take_profit_price : TargetPrices,
     account_balance : Balances, symbol_exposure : SymbolExposures]

InitRisk ==
    /\ rin \in RiskArgs
    /\ rcalls = << >>
    /\ ValidatorIdle
    /\ KernelsIdle
    /\ BacktesterIdle
    /\ DirectionIdle /\ CacheIdle /\ ZonesIdle /\ LateIdle

\* risk_manager.calculate_position_size(...)
CalculatePositionSize ==
    /\ rcalls = << >>
    /\ rcalls' = << calculate_position_size(rin) >>
    /\ UNCHANGED <<rin, baseVars, lateVars, dirVars, cacheVars, zoneVars>>

NextRisk == CalculatePositionSize

SpecRisk == InitRisk /\ [][NextRisk]_vars


(***************************************************************************)
(* The cached indicator calculation (OPTIMIZATION_GUIDE.md, section 2)     *)
(*                                                                         *)
(*     cache_key = f"vp_{len(df)}_{df.index[-1]}"                          *)
(*     cached = global_cache.get(cache_key)                                *)
(*     if cached: return cached                                            *)
(*     # ... calculation ...                                               *)
(*     global_cache.set(cache_key, result)                                 *)
(*                                                                         *)
(* A caller's data frame is named by its symbol, timeframe, length and     *)
(* last index value; the computed profile is named by the frame it was     *)
(* computed from.  global_cache is a key -> value store: get is a lookup   *)
(* that returns at once, set stores one pair.  Each statement is one step; *)
(* callers interleave between statements.                                  *)
(***************************************************************************)

CacheSymbols == {"BTC/USDT", "ETH/USDT"}
Timeframes == {"15m", "1h"}
FrameLengths == {500}
LastTimestamps == {1, 2}
Frames ==
    [symbol : CacheSymbols, timeframe : Timeframes, length : FrameLengths,
     last : LastTimestamps]

\* f"vp_{len(df)}_{df.index[-1]}": the prefix, the length and the last
\* index value, and nothing else of the frame
cache_key(df) == <<"vp", df.length, df.last>>

\* global_cache.get(key): the stored values under the key (none or one)
cache_get(key) == {e.value : e \in {x \in cstore : x.key = key}}

\* global_cache.set(key, value): the pair replaces any pair under the key
cache_set(key, value) ==
    {x \in cstore : x.key # key} \cup {[key |-> key, value |-> value]}

\* The calculation itself: the profile of the frame it is given.
calculate_profile(df) == df

InitCache ==
    /\ CacheIdle
    /\ ValidatorIdle
    /\ KernelsIdle
    /\ BacktesterIdle
    /\ DirectionIdle /\ RiskIdle /\ ZonesIdle /\ LateIdle

\* A caller enters the cached calculation with its data frame.
EnterCalculation(c) ==
    /\ cproc[c].pc = "idle"
    /\ \E df \in Frames :
          cproc' = [cproc EXCEPT ![c].pc = "get", ![c].req = df]
    /\ UNCHANGED <<cstore, clog, baseVars, lateVars, dirVars, riskVars, zoneVars>>

\* cached = global_cache.get(cache_key); if cached: return cached
GetCached(c) ==
    /\ cproc[c].pc = "get"
    /\ LET found == cache_get(cache_key(cproc[c].req))
       IN  IF found # {}
           THEN cproc' = [cproc EXCEPT ![c].pc = "done", ![c].hit = TRUE,
                                       ![c].result = CHOOSE v \in found : TRUE]
           ELSE cproc' = [cproc EXCEPT ![c].pc = "compute"]
    /\ UNCHANGED <<cstore, clog, baseVars, lateVars, dirVars, riskVars, zoneVars>>

\* # ... calculation ...
ComputeResult(c) ==
    /\ cproc[c].pc = "compute"
    /\ cproc' = [cproc EXCEPT ![c].pc = "set",
                              ![c].result = calculate_profile(cproc[c].req)]
    /\ clog' = Append(clog, [caller |-> c, key |-> cache_key(cproc[c].req)])
    /\ UNCHANGED <<cstore, baseVars, lateVars, dirVars, riskVars, zoneVars>>

\* global_cache.set(cache_key, result)
SetCached(c) ==
    /\ cproc[c].pc = "set"
    /\ cstore' = cache_set(cache_key(cproc[c].req), cproc[c].result)
    /\ cproc' = [cproc EXCEPT ![c].pc = "done"]
    /\ UNCHANGED <<clog, baseVars, lateVars, dirVars, riskVars, zoneVars>>

NextCache ==
    \E c \in Callers :
        \/ EnterCalculation(c)
        \/ GetCached(c)
        \/ ComputeResult(c)
        \/ SetCached(c)

SpecCache == InitCache /\ [][NextCache]_vars


(***************************************************************************)
(* Structural zones: order blocks and fair value gaps                      *)
(*                                                                         *)
(* One zone is followed from its creation.  Later candles are delivered    *)
(* one at a time; between candles the downstream stages (confluence        *)
(* calculator, risk manager) read the zone.  zlog records, for every step, *)
(* who took it and the zone's validity state after it.                     *)
(***************************************************************************)

ZoneKinds == {"order_block", "fair_value_gap"}
ZoneSides == {"bullish", "bearish"}
ZoneStates == {"active", "filled", "invalidated", "expired"}
DownstreamStages == {"confluence", "risk_manager"}
\* The zone's price range and the prices candles are drawn from.
ZoneRange == [low |-> 2, high |-> 3]
CandlePrices == 1..4
Candles ==
    {c \in [low : CandlePrices, high : CandlePrices, close : CandlePrices] :
        c.low <= c.close /\ c.close <= c.high}
\* Bars after which a fair value gap that was never filled expires.
FvgExpiryBars == 2

\* The close is beyond the zone's far boundary.
closes_through(zone, candle) ==
    IF zone.side = "bullish" THEN candle.close < zone.low
    ELSE candle.close > zone.high

\* The candle's range reaches into the zone.
revisits(zone, candle) ==
    candle.low <= zone.high /\ candle.high >= zone.low

\* The candle's range covers the whole gap.
trades_through(zone, candle) ==
    candle.low <= zone.low /\ candle.high >= zone.high

\* The state of a zone that is still active or filled, after one candle.
live_zone_state(zone, candle) ==
    IF zone.kind = "order_block" THEN
        IF closes_through(zone, candle) THEN "invalidated"
        ELSE IF revisits(zone, candle) THEN "filled"
        ELSE zone.state
    ELSE
        IF zone.state = "filled" THEN "filled"
        ELSE IF trades_through(zone, candle) THEN "filled"
        ELSE IF zone.age + 1 >= FvgExpiryBars THEN "expired"
        ELSE zone.state

\* (Mutation: validity recomputed from the current candle alone.)
next_zone_state_forgetful(zone, candle) ==
    live_zone_state([zone EXCEPT !.state = "active", !.age = 0], candle)
\* The state of a zone after one candle: invalidated and expired are final.
next_zone_state(zone, candle) ==
    IF zone.state \in {"invalidated", "expired"} THEN zone.state
    ELSE live_zone_state(zone, candle)

InitZones ==
    /\ \E k \in ZoneKinds, d \in ZoneSides :
          zn = [kind |-> k, side |-> d, low |-> ZoneRange.low,
                high |-> ZoneRange.high, state |-> "active", age |-> 0]
    /\ zlog = << >>
    /\ ValidatorIdle
    /\ KernelsIdle
    /\ BacktesterIdle
    /\ DirectionIdle /\ RiskIdle /\ CacheIdle /\ LateIdle

\* The indicator engine processes the next candle.
ProcessCandle ==
    /\ zn.age < MaxBars
    /\ \E candle \in Candles :
          LET st == next_zone_state(zn, candle)
          IN  /\ zn' = [zn EXCEPT !.state = st, !.age = @ + 1]
              /\ zlog' = Append(zlog, [by |-> "candle", state |-> st])
    /\ UNCHANGED <<baseVars, lateVars, dirVars, riskVars, cacheVars>>

\* A downstream stage reads the zone (at most one read between candles).
ReadZone ==
    /\ IF zlog = << >> THEN TRUE ELSE zlog[Len(zlog)].by = "candle"
    /\ \E stage \in DownstreamStages :
          zlog' = Append(zlog, [by |-> stage, state |-> zn.state])
    /\ UNCHANGED <<zn, baseVars, lateVars, dirVars, riskVars, cacheVars>>

NextZones == ProcessCandle \/ ReadZone

SpecZones == InitZones /\ [][NextZones]_vars


\* Every earlier component at rest.
EarlyIdle ==
    /\ ValidatorIdle /\ KernelsIdle /\ BacktesterIdle
    /\ DirectionIdle /\ RiskIdle /\ CacheIdle /\ ZonesIdle


(***************************************************************************)
(* The documented example (main.py): determine_direction, then             *)
(* validate_and_fix on its direction with confidence = raw + adjustment    *)
(***************************************************************************)

PipeRsiValues ==
    {150, 170, 299, 300, 320, 328, 349, 350, 551, 700, 701, 750, 751, 850}
PipeHistograms == {-21, -5, 0, 5, 10, 15, 21}
PipeMacdLines == {-5, 10}
PipeSignalLines == {-5, 5}
\* raw confidences; no statement of the example checks their range
PipeConfidences == {-30, -10, 0, 55, 73, 75, 90, 100, 130}
PipePriceChanges == {-3500, -3000, -350, 3919}
PipeVolumeRatios == {29, 30, 140}

PipelineArgs ==
    [rsi : PipeRsiValues, macd_histogram : PipeHistograms,
     macd_line : PipeMacdLines, signal_line : PipeSignalLines,
     price_trend : PriceTrends, confidence : PipeConfidences,
     price_change_24h : PipePriceChanges, volume_ratio : PipeVolumeRatios]

\* (Mutation: the adjustment not added.)
example_confidence_raw(raw, adj) == raw
\* confidence=55 + adj
example_confidence(raw, adj) == raw + adj

\* checker.validate_and_fix(signal_direction=direction,
\*                          confidence=<raw> + adj, ...)
validate_direction(a, d) ==
    validate_and_fix("BTC/USDT", d.direction,
                     example_confidence(a.confidence, d.confidence_adj),
                     a.rsi, a.macd_histogram, a.price_change_24h,
                     a.volume_ratio)

InitPipeline ==
    /\ pin \in PipelineArgs
    /\ pout = << >>
    /\ LoggerIdle /\ ScoringIdle /\ DeployIdle /\ SyncIdle
    /\ EarlyIdle

\* direction, adj, reason = SignalDirection.determine_direction(...)
ExampleDirection ==
    /\ pout = << >>
    /\ pout' = << Direction(pin) >>
    /\ UNCHANGED <<pin, earlyVars, logVars, scoreVars, dp, sy>>

\* validation = checker.validate_and_fix(...)
ExampleValidation ==
    /\ Len(pout) = 1
    /\ pout' = Append(pout, validate_direction(pin, pout[1]))
    /\ UNCHANGED <<pin, earlyVars, logVars, scoreVars, dp, sy>>

NextPipeline == ExampleDirection \/ ExampleValidation

SpecPipeline == InitPipeline /\ [][NextPipeline]_vars


(***************************************************************************)
(* SignalLogger: processes sharing one CSV file                            *)
(***************************************************************************)

CsvColumns == 13

\* A line of the file is the byte lengths of its comma-separated fields, as
\* csv.writer writes them in UTF-8, and the bytes left of its "\r\n".

\* 'timestamp', 'symbol', 'tier', 'signal', ..., 'final_confidence', 'result'
HeaderLayout == << 9, 6, 4, 6, 10, 3, 4, 16, 12, 6, 12, 16, 6 >>

\* the row of the documented GUN/USDT call (issues "OK"), and the row of the
\* documented SAND/USDT validation (one issue text, was_inverted "YES")
GunRowLayout == << 26, 8, 6, 7, 4, 4, 8, 5, 4, 2, 2, 4, 0 >>
SandRowLayout == << 26, 9, 6, 3, 4, 4, 8, 5, 4, 95, 3, 4, 0 >>
RowLayouts == {GunRowLayout, SandRowLayout}

\* writer.writerow(['timestamp', 'symbol', ..., 'result'])
header_row ==
    [kind |-> "header", by |-> 0, call |-> 0, layout |-> HeaderLayout,
     eol |-> 2]

\* row = [datetime.now().isoformat(), symbol, ..., ""]
signal_row(p, k, layout) ==
    [kind |-> "row", by |-> p, call |-> k, layout |-> layout, eol |-> 2]

\* bytes of the fields and the commas between them; of the whole line
text_bytes(layout) ==
    IF layout = << >> THEN 0
    ELSE SumRange(layout, 1, Len(layout) + 1) + Len(layout) - 1
row_bytes(r) == text_bytes(r.layout) + r.eol

\* the fields left of a line's text once its first k bytes are replaced
RECURSIVE cut_layout(_, _)
cut_layout(layout, k) ==
    IF k = 0 THEN layout
    ELSE IF Len(layout) = 1
         THEN IF k >= layout[1] THEN << >> ELSE << layout[1] - k >>
    ELSE IF k <= layout[1] THEN << layout[1] - k >> \o Tail(layout)
    ELSE cut_layout(Tail(layout), k - layout[1] - 1)

\* what is left of a line whose first k bytes (0 < k < its length) are
\* replaced by the end of the header
cut_row(r, k) ==
    LET t == text_bytes(r.layout)
    IN  IF k <= t
        THEN [r EXCEPT !.kind = "fragment", !.layout = cut_layout(@, k)]
        ELSE [r EXCEPT !.kind = "fragment", !.layout = << >>,
                       !.eol = @ - (k - t)]

\* the lines of the file after its first k bytes
RECURSIVE overwrite_prefix(_, _)
overwrite_prefix(rows, k) ==
    IF k = 0 \/ rows = << >> THEN rows
    ELSE IF k >= row_bytes(rows[1])
         THEN overwrite_prefix(Tail(rows), k - row_bytes(rows[1]))
    ELSE << cut_row(rows[1], k) >> \o Tail(rows)

\* open(self.log_file, 'w'): the file is created, or emptied if it exists.
open_write(f) == [exists |-> TRUE, rows |-> << >>]

\* The header leaves the 'w' handle at offset 0 when the with-block closes:
\* it replaces the first 124 bytes of whatever the file holds by then, the
\* lines inside them wholly and the line they end in up to that byte.
flush_header(rows) ==
    << header_row >> \o overwrite_prefix(rows, row_bytes(header_row))

\* open(self.log_file, 'a'); writer.writerow(row)
append_row(rows, r) == Append(rows, r)

InitLogger ==
    /\ lfile = [exists |-> FALSE, rows |-> << >>]
    /\ lproc = [p \in Loggers |-> [pc |-> "idle", logged |-> 0]]
    /\ PipelineIdle /\ ScoringIdle /\ DeployIdle /\ SyncIdle
    /\ EarlyIdle

\* SignalLogger(log_file): __init__ calls _init_csv, which tests
\* Path(self.log_file).exists()
Construct(p) ==
    /\ lproc[p].pc = "idle"
    /\ lproc' = [lproc EXCEPT ![p].pc =
                     IF lfile.exists THEN "ready" ELSE "open"]
    /\ UNCHANGED <<lfile, earlyVars, pipeVars, scoreVars, dp, sy>>

\* with open(self.log_file, 'w', newline='') as f:
OpenForWrite(p) ==
    /\ lproc[p].pc = "open"
    /\ lfile' = open_write(lfile)
    /\ lproc' = [lproc EXCEPT ![p].pc = "header"]
    /\ UNCHANGED <<earlyVars, pipeVars, scoreVars, dp, sy>>

\* writer.writerow([...]) and the end of the with-block
WriteHeader(p) ==
    /\ lproc[p].pc = "header"
    /\ lfile' = [lfile EXCEPT !.rows = flush_header(@)]
    /\ lproc' = [lproc EXCEPT ![p].pc = "ready"]
    /\ UNCHANGED <<earlyVars, pipeVars, scoreVars, dp, sy>>

\* logger.log_signal(...)
LogSignal(p) ==
    /\ lproc[p].pc = "ready"
    /\ lproc[p].logged < MaxLogs
    /\ \E layout \in RowLayouts :
           lfile' = [exists |-> TRUE,
                     rows |-> append_row(lfile.rows,
                                signal_row(p, lproc[p].logged + 1, layout))]
    /\ lproc' = [lproc EXCEPT ![p].logged = @ + 1]
    /\ UNCHANGED <<earlyVars, pipeVars, scoreVars, dp, sy>>

NextLogger ==
    \E p \in Loggers :
        Construct(p) \/ OpenForWrite(p) \/ WriteHeader(p) \/ LogSignal(p)

SpecLogger == InitLogger /\ [][NextLogger]_vars


(***************************************************************************)
(* scoring.pyx: calculate_scam_score and batch_score_signals               *)
(* Features and weights are in units of 1/Scale, scores in 1/(Scale*Scale);*)
(* a double is <<available, value>>, NaN being the unavailable one.        *)
(***************************************************************************)

ScoreOne == Scale * Scale

FeatureValues == {NaN, Num(-50), Num(150)}
WeightValues == {Num(50), Num(100)}

\* a * b and a + b on doubles: NaN if either operand is NaN
fmul(a, b) == IF a[1] /\ b[1] THEN Num(a[2] * b[2]) ELSE NaN
fadd(a, b) == IF a[1] /\ b[1] THEN Num(a[2] + b[2]) ELSE NaN

\* max(a, b) and min(a, b) on C doubles: the second argument is taken only
\* if it compares greater (smaller) than the first, which NaN never does.
c_max(a, b) == IF a[1] /\ b[1] /\ b[2] > a[2] THEN b ELSE a
c_min(a, b) == IF a[1] /\ b[1] /\ b[2] < a[2] THEN b ELSE a

\* min(1.0, max(0.0, score))
clip_score(score) == c_min(Num(ScoreOne), c_max(Num(0), score))

\* score = 0.0; for i in range(n): score += features[i] * weights[i]
RECURSIVE weighted_sum(_, _, _)
weighted_sum(features, weights, n) ==
    IF n = 0 THEN Num(0)
    ELSE fadd(weighted_sum(features, weights, n - 1),
              fmul(features[n], weights[n]))

calculate_scam_score(features, weights) ==
    clip_score(weighted_sum(features, weights, Len(features)))

\* the running sum of rows 1..i when score is not reset per row
RECURSIVE carried_sum(_, _, _)
carried_sum(m, weights, i) ==
    IF i = 0 THEN Num(0)
    ELSE fadd(carried_sum(m, weights, i - 1),
              weighted_sum(m[i], weights, Len(m[i])))

\* (Mutation: score = 0.0 hoisted out of the loop over the signals.)
batch_score_signals_carry(features_matrix, weights) ==
    [i \in 1..Len(features_matrix) |->
        clip_score(carried_sum(features_matrix, weights, i))]
batch_score_signals(features_matrix, weights) ==
    [i \in 1..Len(features_matrix) |->
        clip_score(weighted_sum(features_matrix[i], weights,
                                Len(features_matrix[i])))]

Matrices(rows, cols) == [1..rows -> [1..cols -> FeatureValues]]

ScoringArgs ==
    UNION {[features_matrix : Matrices(rows, cols),
            weights : [1..cols -> WeightValues]] :
               <<rows, cols>> \in (0..MaxSignals) \X (0..MaxFeatures)}

InitScoring ==
    /\ sin \in ScoringArgs
    /\ sout = << >>
    /\ PipelineIdle /\ LoggerIdle /\ DeployIdle /\ SyncIdle
    /\ EarlyIdle

\* scores = batch_score_signals(features_matrix, weights)
BatchScoreSignals ==
    /\ sout = << >>
    /\ sout' = << [call |-> "batch_score_signals", row |-> 0,
                   scores |-> batch_score_signals(sin.features_matrix,
                                                  sin.weights)] >>
    /\ UNCHANGED <<sin, earlyVars, pipeVars, logVars, dp, sy>>

\* calculate_scam_score(features_matrix[i], weights), row after row
CalculateScamScore ==
    /\ Len(sout) >= 1
    /\ Len(sout) <= Len(sin.features_matrix)
    /\ LET i == Len(sout)
       IN  sout' = Append(sout,
                     [call |-> "calculate_scam_score", row |-> i,
                      scores |-> << calculate_scam_score(
                                      sin.features_matrix[i], sin.weights) >>])
    /\ UNCHANGED <<sin, earlyVars, pipeVars, logVars, dp, sy>>

NextScoring == BatchScoreSignals \/ CalculateScamScore

SpecScoring == InitScoring /\ [][NextScoring]_vars


(***************************************************************************)
(* DEPLOY_COMMANDS.sh: the deployment script                               *)
(***************************************************************************)

DeployModes == {"full", "quick"}
CommandStatuses == {0, 1}
SshUnreachable == 255

\* the steps in script order; MODE = quick leaves the training step out
deploy_steps(mode) ==
    IF mode # "quick"
    THEN << "training", "cleanup", "sync", "install", "setup", "start",
            "verify" >>
    ELSE << "cleanup", "sync", "install", "setup", "start", "verify" >>

\* ssh ... << 'ENDSSH': the status of the last remote command, or 255 when
\* the connection cannot be made
ssh_status(connected, last_status) ==
    IF connected THEN last_status ELSE SshUnreachable

\* the commands of the here-document of step 5, before its echo
SetupCommands == {"cd", "cp_service", "cp_timer", "daemon_reload"}

\* a command of the step exited non-zero (or ssh could not connect)
some_failed(connected, statuses) ==
    ~connected \/ \E c \in DOMAIN statuses : statuses[c] # 0

all_ok(done) == [u \in DOMAIN done |-> IF done[u] THEN 0 ELSE 1]

\* a step that ran: the exit status the script sees, and whether a command
\* of the step failed
record_step(d, step, status, failed) ==
    [d EXCEPT !.ran = Append(@, [step |-> step, status |-> status,
                                 failed |-> failed])]

say(d, line) == [d EXCEPT !.printed = Append(@, line)]

\* set -e: a command that exits non-zero ends the script with that status;
\* otherwise the script goes on to the lines after it.
errexit(d, status, line, next) ==
    IF status # 0 THEN [d EXCEPT !.pc = "aborted", !.exit = status]
    ELSE [say(d, line) EXCEPT !.pc = next]

\* cmd || echo "Cleanup had errors (non-critical)": never ends the script
or_echo(d, status, line) == IF status # 0 THEN say(d, line) ELSE d

outcome(ok) == IF ok THEN "ok" ELSE "failed"

InitDeploy ==
    /\ \E mode \in DeployModes :
           dp = [mode |-> mode, pc |-> "idle", exit |-> -1,
                 ran |-> << >>, printed |-> << >>,
                 restart |-> [u \in ServiceUnits |-> "not_run"],
                 active |-> [u \in ServiceUnits |-> "not_run"]]
    /\ PipelineIdle /\ LoggerIdle /\ ScoringIdle /\ SyncIdle
    /\ EarlyIdle

\* MODE="${1:-full}" and the banner
ParseMode ==
    /\ dp.pc = "idle"
    /\ dp' = [dp EXCEPT !.pc = deploy_steps(dp.mode)[1]]
    /\ UNCHANGED <<earlyVars, pipeVars, logVars, scoreVars, sy>>

\* STEP 1: python scripts/train_lightgbm_fixed.py --quick
TrainModel ==
    /\ dp.pc = "training"
    /\ \E status \in CommandStatuses :
           dp' = errexit(record_step(dp, "training", status, status # 0),
                         status,
                         "Model trained successfully", "cleanup")
    /\ UNCHANGED <<earlyVars, pipeVars, logVars, scoreVars, sy>>

\* STEP 2: python scripts/cleanup_project.py || echo ...
CleanUp ==
    /\ dp.pc = "cleanup"
    /\ \E status \in CommandStatuses :
           dp' = errexit(or_echo(record_step(dp, "cleanup", status,
                                             status # 0),
                                 status, "Cleanup had errors (non-critical)"),
                         0, "Cleanup complete", "sync")
    /\ UNCHANGED <<earlyVars, pipeVars, logVars, scoreVars, sy>>

\* STEP 3: rsync ... "$SERVER:$REMOTE_PATH/"
SyncFiles ==
    /\ dp.pc = "sync"
    /\ \E status \in CommandStatuses :
           dp' = errexit(record_step(dp, "sync", status, status # 0), status,
                         "Files synced successfully", "install")
    /\ UNCHANGED <<earlyVars, pipeVars, logVars, scoreVars, sy>>

\* STEP 4: ssh ... "cd $REMOTE_PATH && python3 -m pip install ..."
InstallDependencies ==
    /\ dp.pc = "install"
    /\ \E connected \in BOOLEAN, pip \in CommandStatuses :
           LET status == ssh_status(connected, pip)
           IN  dp' = errexit(record_step(dp, "install", status, status # 0),
                             status, "Dependencies installed", "setup")
    /\ UNCHANGED <<earlyVars, pipeVars, logVars, scoreVars, sy>>

\* STEP 5: the remote cd, cp, cp, daemon-reload, echo.  The remote shell
\* runs every line whatever the earlier ones returned; the echo is last.
SetupServices ==
    /\ dp.pc = "setup"
    /\ \E connected \in BOOLEAN, remote \in [SetupCommands -> CommandStatuses] :
           LET status == ssh_status(connected, 0)
           IN  dp' = errexit(record_step(dp, "setup", status,
                                         some_failed(connected, remote)),
                             status, "Systemd services configured", "start")
    /\ UNCHANGED <<earlyVars, pipeVars, logVars, scoreVars, sy>>

\* STEP 6: the remote restart and enable of each unit, then the echo
StartServices ==
    /\ dp.pc = "start"
    /\ \E connected \in BOOLEAN, restarted \in [ServiceUnits -> BOOLEAN],
          enabled \in [ServiceUnits -> BOOLEAN] :
           LET status == ssh_status(connected, 0)
               d == IF connected
                    THEN [dp EXCEPT !.restart =
                              [u \in ServiceUnits |-> outcome(restarted[u])]]
                    ELSE dp
               failed == \/ some_failed(connected, all_ok(restarted))
                         \/ some_failed(connected, all_ok(enabled))
           IN  dp' = errexit(record_step(d, "start", status, failed), status,
                             "All services started", "verify")
    /\ UNCHANGED <<earlyVars, pipeVars, logVars, scoreVars, sy>>

\* STEP 7: is-active X && echo ... || echo ... for each unit, then the two
\* journalctl calls, the second being the last remote command
VerifyDeployment ==
    /\ dp.pc = "verify"
    /\ \E connected \in BOOLEAN, running \in [ServiceUnits -> BOOLEAN],
          bot_journal \in CommandStatuses, journal \in CommandStatuses :
           LET status == ssh_status(connected, journal)
               d == IF connected
                    THEN [dp EXCEPT !.active =
                              [u \in ServiceUnits |-> outcome(running[u])]]
                    ELSE dp
               failed == \/ some_failed(connected, all_ok(running))
                         \/ bot_journal # 0 \/ journal # 0
           IN  dp' = [errexit(record_step(d, "verify", status, failed),
                              status, "DEPLOYMENT COMPLETE", "finished")
                         EXCEPT !.exit = status]
    /\ UNCHANGED <<earlyVars, pipeVars, logVars, scoreVars, sy>>

NextDeploy ==
    \/ ParseMode \/ TrainModel \/ CleanUp \/ SyncFiles
    \/ InstallDependencies \/ SetupServices \/ StartServices
    \/ VerifyDeployment

SpecDeploy == InitDeploy /\ [][NextDeploy]_vars


(***************************************************************************)
(* The file-sync script (README_V2.md)                                     *)
(* sy.copied counts the files that were found and whose scp returned 0;    *)
(* sy.unmade counts the files counted in SUCCESS whose mkdir had failed.   *)
(***************************************************************************)

NEW_FILES ==
    << "ml/labeling.py", "trading/outcome_tracker.py",
       "utils/universe_selector.py", "utils/signal_integrator.py",
       "utils/advanced_signal_validator.py",
       "utils/enhanced_signal_generator.py" >>

MODIFIED_FILES ==
    << "ml/lightgbm_model.py", "bots/telegram/bot_v2.py",
       "scripts/train_lightgbm.py", "scripts/run_comprehensive_backtest.py",
       "scripts/auto_retrain_v2.py" >>

ALL_FILES == NEW_FILES \o MODIFIED_FILES

\* copy_file: 1 when the local file is missing; otherwise mkdir over ssh,
\* then scp, and $? tested after them is the status of scp alone.
copy_file(found, mkdir, scp) ==
    IF ~found THEN 1 ELSE IF scp = 0 THEN 0 ELSE 1

InitSync ==
    /\ SyncIdle
    /\ PipelineIdle /\ LoggerIdle /\ ScoringIdle
    /\ DeployIdle
    /\ EarlyIdle

\* if ! command -v sshpass ...; SUCCESS=0; FAILED=0
CheckSshpass ==
    /\ sy.pc = "idle"
    /\ \E present \in BOOLEAN :
           sy' = [sy EXCEPT !.pc = "loop", !.use_sshpass = present]
    /\ UNCHANGED <<earlyVars, pipeVars, logVars, scoreVars, dp>>

\* one turn of: for file in "${ALL_FILES[@]}"; do copy_file ...; done
CopyNextFile ==
    /\ sy.pc = "loop"
    /\ sy.index < Len(ALL_FILES)
    /\ \E found \in BOOLEAN, mkdir \in CommandStatuses,
          scp \in CommandStatuses :
           LET returned == copy_file(found, mkdir, scp)
           IN  sy' = [sy EXCEPT
                        !.index = @ + 1,
                        !.SUCCESS = IF returned = 0 THEN @ + 1 ELSE @,
                        !.FAILED = IF returned = 0 THEN @ ELSE @ + 1,
                        !.copied = IF found /\ scp = 0 THEN @ + 1 ELSE @,
                        !.unmade = IF returned = 0 /\ found /\ mkdir # 0
                                   THEN @ + 1 ELSE @,
                        !.last = [file |-> ALL_FILES[sy.index + 1],
                                  found |-> found,
                                  mkdir |-> IF found THEN mkdir ELSE -1,
                                  scp |-> IF found THEN scp ELSE -1,
                                  returned |-> returned]]
    /\ UNCHANGED <<earlyVars, pipeVars, logVars, scoreVars, dp>>

\* if [ $FAILED -eq 0 ]; then ... exit 0; else ... exit 1; fi
ReportResult ==
    /\ sy.pc = "loop"
    /\ sy.index = Len(ALL_FILES)
    /\ sy' = [sy EXCEPT !.pc = "done",
                        !.exit = IF sy.FAILED = 0 THEN 0 ELSE 1]
    /\ UNCHANGED <<earlyVars, pipeVars, logVars, scoreVars, dp>>

NextSync == CheckSshpass \/ CopyNextFile \/ ReportResult

SpecSync == InitSync /\ [][NextSync]_vars


(***************************************************************************)
(* Properties of validate_and_fix                                          *)
(***************************************************************************)

Validated == Len(vcalls) >= 1
R1 == vcalls[1]

\* C4 (as stated): every SELL with RSI < 35 comes back as BUY, marked
\* inverted and invalid, with final confidence = incoming confidence - 20.
C4_Original ==
    (Validated /\ vin.signal_direction = "SELL" /\ vin.rsi < 350) =>
        /\ R1.final_signal = "BUY"
        /\ R1.final_confidence = vin.confidence - 20
        /\ R1.was_inverted
        /\ ~R1.is_valid

\* C4 (amended): every SELL with RSI < 35 comes back as BUY, marked inverted
\* and invalid; the final confidence is the incoming confidence less 20
\* when that lies in [30, 100], the floor 30 when the incoming confidence
\* is below 50, and the cap 100 when it is above 120.
C4_Amended ==
    (Validated /\ vin.signal_direction = "SELL" /\ vin.rsi < 350) =>
        /\ R1.final_signal = "BUY"
        /\ R1.was_inverted
        /\ ~R1.is_valid
        /\ (vin.confidence >= 50 /\ vin.confidence <= 120)
               => R1.final_confidence = vin.confidence - 20
        /\ vin.confidence < 50 => R1.final_confidence = 30
        /\ vin.confidence > 120 => R1.final_confidence = 100

\* The SAND example inverted, and a low-confidence SELL lifted to the floor.
C4_Witness ==
    /\ Validated
    /\ vin.signal_direction = "SELL" /\ vin.rsi = 328 /\ vin.confidence = 20
    /\ R1.final_signal = "BUY" /\ R1.was_inverted
    /\ R1.final_confidence = 30

\* C5: a 24-hour change below -30% always yields WAIT with confidence 0,
\* whatever the direction, confidence, RSI, MACD histogram and volume.
C5_Claim ==
    (Validated /\ vin.price_change_24h < -3000) =>
        (R1.final_signal = "WAIT" /\ R1.final_confidence = 0)

\* The neutral mid-band and the ceiling of check 4.
InNeutralBand(rsi) == 500 <= rsi /\ rsi <= 550
IsGunExample ==
    /\ vin.signal_direction = "NEUTRAL" /\ vin.macd_histogram = 10
    /\ vin.rsi = 551 /\ vin.confidence = 73
    /\ vin.price_change_24h = 3919 /\ vin.volume_ratio = 120

\* C6: neutral RSI with confidence above the ceiling always ends at
\* confidence <= 50 (any direction, any other inputs), and the documented
\* GUN example (RSI 55.1, confidence 73) ends with confidence in 40..50.
C6_Claim ==
    Validated =>
        /\ (InNeutralBand(vin.rsi) /\ vin.confidence > 70)
               => R1.final_confidence <= 50
        /\ IsGunExample
               => (R1.final_confidence >= 40 /\ R1.final_confidence <= 50)

\* C7 (as stated): validating the result of a validation again, with the
\* same indicator state, returns the same final signal and confidence.
C7_Original ==
    \A k \in 1..(Len(vcalls) - 1) :
        /\ vcalls[k + 1].final_signal = vcalls[k].final_signal
        /\ vcalls[k + 1].final_confidence = vcalls[k].final_confidence

\* C7 (amended): validating a result again returns the same final signal
\* and confidence when the first call recorded no issue; in every case the
\* repeated call never inverts, leaves the direction unchanged or turns it
\* to WAIT, and never raises the confidence.
C7_Amended ==
    \A k \in 1..(Len(vcalls) - 1) :
        /\ vcalls[k].issues = << >> =>
               /\ vcalls[k + 1].final_signal = vcalls[k].final_signal
               /\ vcalls[k + 1].final_confidence = vcalls[k].final_confidence
        /\ ~vcalls[k + 1].was_inverted
        /\ vcalls[k + 1].final_signal \in {vcalls[k].final_signal, "WAIT"}
        /\ vcalls[k + 1].final_confidence <= vcalls[k].final_confidence

\* A penalty applied a second time: the repeated call lowered the confidence.
C7_Witness ==
    /\ Len(vcalls) >= 2
    /\ vcalls[1].issues # << >>
    /\ vcalls[2].final_signal = vcalls[1].final_signal
    /\ vcalls[2].final_confidence < vcalls[1].final_confidence

\* The conditions under which the spec's checks apply to the arguments.
CheckHolds(k) ==
    CASE k = 1 -> check1_cond(vin.signal_direction, vin.rsi)
      [] k = 2 -> check2_cond(vin.signal_direction, vin.rsi)
      [] k = 3 -> check3_cond(vin.signal_direction, vin.macd_histogram)
      [] k = 4 -> check4_cond(vin.rsi, vin.confidence)
      [] k = 5 -> check5_cond(vin.price_change_24h)
      [] k = 6 -> check6_cond(vin.volume_ratio)

IssuesOf(r) == {r.issues[i] : i \in 1..Len(r.issues)}

\* C8: every check whose condition holds on the arguments records its
\* issue in the result (checks are not mutually exclusive).
C8_Claim ==
    Validated => \A k \in 1..6 : CheckHolds(k) => k \in IssuesOf(R1)

\* C9: where no other check applies (no inversion, no neutral-band clamp,
\* no volatility rejection, no low volume), a SELL against a strongly
\* positive histogram and a BUY against a strongly negative one both keep
\* their direction, are not inverted, and lose the penalty of 20.
C9_Claim ==
    (/\ Validated
     /\ ~check1_cond(vin.signal_direction, vin.rsi)
     /\ ~check2_cond(vin.signal_direction, vin.rsi)
     /\ ~check4_cond(vin.rsi, vin.confidence)
     /\ ~check5_cond(vin.price_change_24h)
     /\ ~check6_cond(vin.volume_ratio)
     /\ \/ (vin.signal_direction = "SELL" /\ vin.macd_histogram > 5)
        \/ (vin.signal_direction = "BUY" /\ vin.macd_histogram < -5)) =>
        /\ R1.final_signal = vin.signal_direction
        /\ ~R1.was_inverted
        /\ R1.final_confidence = clamp_confidence(vin.confidence - 20)

Opposite(d) == IF d = "BUY" THEN "SELL" ELSE IF d = "SELL" THEN "BUY" ELSE d

\* The result for the opposite direction at the RSI reflected about c/2.
MirrorResult(c) ==
    Validate([vin EXCEPT !.signal_direction = Opposite(@), !.rsi = c - @])

MirrorAgrees(c) ==
    (Validated /\ vin.signal_direction \in {"BUY", "SELL"}) =>
        LET m == MirrorResult(c)
        IN  /\ R1.was_inverted <=> m.was_inverted
            /\ R1.was_inverted =>
                   /\ R1.final_signal = Opposite(vin.signal_direction)
                   /\ m.final_signal = vin.signal_direction
                   /\ m.final_confidence = R1.final_confidence
                   /\ m.is_valid = R1.is_valid

\* C10 (as stated): a BUY at RSI r is inverted exactly when a SELL at RSI
\* 100 - r is inverted, with the same final confidence and flags.
C10_Original == MirrorAgrees(1000)

\* C10 (amended): the two inversions have the same effect on confidence and
\* flags, but their levels are 35 and 75: a BUY at RSI r is inverted
\* exactly when a SELL at RSI 110 - r is inverted.
C10_Amended == MirrorAgrees(1100)

\* A BUY just above 75 inverted to SELL.
C10_Witness ==
    /\ Validated
    /\ vin.signal_direction = "BUY" /\ vin.rsi = 751
    /\ R1.was_inverted /\ R1.final_signal = "SELL"
    /\ MirrorResult(1100).final_signal = "BUY"

\* C11: whatever the raw direction (BUY, SELL or NEUTRAL) and the indicator
\* state, the final direction of validate_and_fix is BUY, SELL or WAIT.
C11_Claim ==
    Validated => R1.final_signal \in {"BUY", "SELL", "WAIT"}

\* C12: for every input, incoming confidences below 0 and above 100
\* included, the final confidence of every result lies in [0, 100].
C12_ConfidenceInRange ==
    \A k \in 1..Len(vcalls) :
        vcalls[k].final_confidence >= 0 /\ vcalls[k].final_confidence <= 100

\* An incoming confidence of 130 that no check touched, cut to 100, and one
\* of -10 lifted to 0.
C12_Witness ==
    /\ Validated
    /\ \/ vin.confidence = 130 /\ R1.issues = << >>
          /\ R1.final_confidence = 100
       \/ vin.confidence = -10 /\ R1.issues = << >>
          /\ R1.final_confidence = 0

(***************************************************************************)
(* Properties of the indicator kernels                                     *)
(***************************************************************************)

KernelRan == kout.kernel \in {"calculate_moving_average",
                              "calculate_volatility", "calculate_rsi"}

\* Index, in the last kernel's output, of the element for the window that
\* ends at the evaluation bar.
EvalIndex ==
    CASE kout.kernel = "calculate_moving_average" -> ma_index(ke, kw)
      [] kout.kernel = "calculate_volatility" -> volatility_index(ke, kw)
      [] kout.kernel = "calculate_rsi" -> rsi_index(ke, kw)

SameAtEval == ElementAt(kout.a, EvalIndex) = ElementAt(kout.b, EvalIndex)

\* C1: for each of the three kernels, the output element for the
\* window ending at bar e is the same whatever the prices after bar e are.
C1_Claim ==
    (/\ KernelRan
     /\ \/ ElementAt(kout.a, EvalIndex)[1] = "value"
        \/ ElementAt(kout.b, EvalIndex)[1] = "value") => SameAtEval

(***************************************************************************)
(* Properties of the labels                                                *)
(***************************************************************************)

LabelsMade == kout.kernel = "create_realistic_labels"

\* The evaluation bar's place in the labelled frame.
LabelBar == LabelWarmup + ke

C3_NoLeakAcrossWindows ==
    /\ \A k \in 1..Len(wf.evaluated) :
          LET ev == wf.evaluated[k]
              test == TestRange(wf, ev.window)
          IN  /\ ev.model = <<ev.window * wf.step_days,
                              ev.window * wf.step_days + wf.train_days>>
              /\ ev.model[2] <= test[1]
              /\ test[1] <= ev.bar /\ ev.bar < test[2]
              /\ ev.model[2] <= ev.bar
    /\ \A k \in 1..(Len(wf.history) - 1) :
          /\ wf.history[k] < wf.history[k + 1]
          /\ TestRange(wf, wf.history[k])[1]
                < TestRange(wf, wf.history[k + 1])[1]

\* The documented run: the last bar of the second window (Feb-Apr -> May)
\* evaluated with the model fitted on days 30..119.
C3_Witness ==
    /\ wf.train_days = 90 /\ wf.test_days = 30 /\ wf.step_days = 30
    /\ Len(wf.evaluated) = 1
    /\ wf.evaluated[1].window = 1
    /\ wf.evaluated[1].bar = 149
    /\ wf.evaluated[1].model = <<30, 120>>
    /\ wf.history = <<0, 1>>

(***************************************************************************)
(* Properties of determine_direction                                       *)
(***************************************************************************)

Directed == Len(dcalls) >= 1
D1 == dcalls[1]

MomentumAgreesBuy(a) ==
    a.macd_histogram > 0 \/ a.macd_line > a.signal_line

\* The same call with another MACD state.
WithMacd(h, l, g) ==
    [din EXCEPT !.macd_histogram = h, !.macd_line = l, !.signal_line = g]

\* C13: with RSI < 30 the result is BUY for every price_trend and MACD
\* state; the adjustment is +20 with a positive histogram, otherwise +15
\* with the MACD line above the signal line, otherwise +10, so it is
\* strictly larger whenever momentum agrees than whenever it does not.
C13_OversoldIsBuy ==
    (Directed /\ din.rsi < 300) =>
        /\ D1.direction = "BUY"
        /\ din.macd_histogram > 0 => D1.confidence_adj = 20
        /\ (din.macd_histogram <= 0 /\ din.macd_line > din.signal_line)
               => D1.confidence_adj = 15
        /\ ~MomentumAgreesBuy(din) => D1.confidence_adj = 10
        /\ MomentumAgreesBuy(din) =>
               \A h \in DirHistograms, l \in DirMacdLines,
                  g \in DirSignalLines :
                   ~MomentumAgreesBuy(WithMacd(h, l, g)) =>
                       D1.confidence_adj >
                           Direction(WithMacd(h, l, g)).confidence_adj

\* RSI 15 in a downtrend with a positive histogram: BUY with the +20 boost.
C13_Witness ==
    /\ Directed
    /\ din.rsi = 150 /\ din.macd_histogram > 0
    /\ din.price_trend = "downtrend"
    /\ D1.direction = "BUY" /\ D1.confidence_adj = 20

\* The six rules in their order: 1 oversold, 2 overbought, 3 bullish MACD
\* cross, 4 bearish MACD cross, 5 uptrend confirmation, 6 downtrend
\* confirmation.
RuleHolds(k, a) ==
    CASE k = 1 -> a.rsi < 300
      [] k = 2 -> a.rsi > 700
      [] k = 3 -> /\ a.macd_histogram > 20 /\ a.macd_line > a.signal_line
                  /\ 300 <= a.rsi /\ a.rsi <= 700
      [] k = 4 -> /\ a.macd_histogram < -20 /\ a.macd_line < a.signal_line
                  /\ 300 <= a.rsi /\ a.rsi <= 700
      [] k = 5 -> /\ a.price_trend = "uptrend" /\ a.macd_histogram > 0
                  /\ a.rsi < 700
      [] k = 6 -> /\ a.price_trend = "downtrend" /\ a.macd_histogram < 0
                  /\ a.rsi > 300

\* What each rule can return: direction, adjustments, reasons.
RuleDirection(k) == IF k \in {1, 3, 5} THEN "BUY" ELSE "SELL"
RuleAdjustments(k) ==
    IF k \in {1, 2} THEN {10, 15, 20} ELSE IF k \in {3, 4} THEN {15} ELSE {10}
RuleReasons(k) ==
    CASE k = 1 -> {"oversold_strong", "oversold_cross", "oversold"}
      [] k = 2 -> {"overbought_strong", "overbought_cross", "overbought"}
      [] k = 3 -> {"bullish_cross"}
      [] k = 4 -> {"bearish_cross"}
      [] k = 5 -> {"uptrend"}
      [] k = 6 -> {"downtrend"}

\* The first rule whose predicate holds, 0 when none does.
FirstRule(a) ==
    IF \E k \in 1..6 : RuleHolds(k, a)
    THEN CHOOSE k \in 1..6 :
             RuleHolds(k, a) /\ \A j \in 1..(k - 1) : ~RuleHolds(j, a)
    ELSE 0

\* C14: the result is the outcome of the first rule, in the order above,
\* whose predicate holds; no crossover or trend outcome while the RSI is
\* extreme; no trend outcome while a crossover rule matches; NEUTRAL with
\* adjustment 0 exactly when no rule matches.
C14_FirstMatchWins ==
    Directed =>
        LET k == FirstRule(din)
        IN  /\ k # 0 =>
                   /\ D1.direction = RuleDirection(k)
                   /\ D1.confidence_adj \in RuleAdjustments(k)
                   /\ D1.reason \in RuleReasons(k)
            /\ (din.rsi < 300 \/ din.rsi > 700) =>
                   D1.reason \notin UNION {RuleReasons(j) : j \in 3..6}
            /\ (RuleHolds(3, din) \/ RuleHolds(4, din)) =>
                   D1.reason \notin UNION {RuleReasons(j) : j \in 5..6}
            /\ (D1.direction = "NEUTRAL" /\ D1.confidence_adj = 0)
                   <=> k = 0

\* The bullish crossover and the uptrend confirmation both match; the
\* crossover, which comes first, is the one returned.
C14_Witness ==
    /\ Directed
    /\ RuleHolds(3, din) /\ RuleHolds(5, din)
    /\ D1.reason = "bullish_cross" /\ D1.confidence_adj = 15

(***************************************************************************)
(* Properties of the risk manager                                          *)
(***************************************************************************)

Sized == Len(rcalls) >= 1
P1 == rcalls[1]
TradeAccepted == Sized /\ P1.status = "accepted"
EntryToStop ==
    IF rin.direction = "BUY" THEN rin.entry_price - rin.stop_loss_price
    ELSE rin.stop_loss_price - rin.entry_price

\* C15: for every accepted trade, position size x entry-to-stop distance
\* is at most equity x risk-per-trade fraction, and the exposure caps never
\* give more than the risk-based size.
C15_LossWithinRisk ==
    TradeAccepted =>
        /\ P1.size[1] * EntryToStop * Percent
               <= rin.account_balance * rin.risk_per_trade * SizeScale
        /\ P1.size[1] <= risk_sized(rin.account_balance, rin.risk_per_trade,
                                    EntryToStop)

\* The documented call: 1% of 10000 at entry 100 and stop 98 is 50 units,
\* a loss of exactly 100 if stopped.
C15_Witness ==
    /\ TradeAccepted
    /\ rin.risk_per_trade = 1 /\ rin.direction = "BUY"
    /\ rin.entry_price = 100 /\ rin.stop_loss_price = 98
    /\ rin.account_balance = 10000
    /\ P1.size[1] = 50 * SizeScale

\* C16: with the stop at or beyond the entry on the wrong side (distance
\* zero or negative) the outcome is a rejected trade that carries no
\* position size.
C16_DegenerateStopRejected ==
    (Sized /\ EntryToStop <= 0) =>
        (P1.status = "rejected" /\ P1.size = << >>)

\* A BUY with entry 100 and stop 100, rejected.
C16_Witness ==
    /\ Sized
    /\ rin.direction = "BUY"
    /\ rin.entry_price = 100 /\ rin.stop_loss_price = 100
    /\ P1.status = "rejected"

(***************************************************************************)
(* Properties of the cached calculation                                    *)
(***************************************************************************)

\* C17: under any interleaving of callers that request the same cache key,
\* the calculation is run at most once for that key.
C17_Claim ==
    \A i, j \in 1..Len(clog) : clog[i].key = clog[j].key => i = j

\* C18: a result taken from the cache was computed for the same symbol,
\* timeframe, length and last timestamp as the request it is returned to,
\* and two frames that differ in symbol or timeframe never have the same
\* cache key.
C18_Claim ==
    /\ \A c \in Callers :
           (cproc[c].pc = "done" /\ cproc[c].hit) =>
               cproc[c].result = calculate_profile(cproc[c].req)
    /\ \A c, d \in Callers :
           (/\ cproc[c].pc # "idle" /\ cproc[d].pc # "idle"
            /\ \/ cproc[c].req.symbol # cproc[d].req.symbol
               \/ cproc[c].req.timeframe # cproc[d].req.timeframe)
               => cache_key(cproc[c].req) # cache_key(cproc[d].req)

(***************************************************************************)
(* Insufficient history                                                    *)
(***************************************************************************)

\* The shortest series from which the kernel produces one output element:
\* window prices for the moving average, window + 1 (period + 1) prices for
\* the volatility and the RSI.
NeededLength(kernel, window) ==
    IF kernel = "calculate_moving_average" THEN window ELSE window + 1

\* C19: on every series shorter than the kernel needs, the empty series
\* and n < window included, each of the three kernels returns an empty
\* array; it does not raise.
C19_Claim ==
    (KernelRan /\ ArrLen(kp) < NeededLength(kout.kernel, kw)) =>
        (kout.a.err = "none" /\ ArrLen(kout.a.val) = 0)

(***************************************************************************)
(* Properties of the structural zones                                      *)
(***************************************************************************)

\* The zone's state before step i (a zone is created active).
StateBefore(i) == IF i = 1 THEN "active" ELSE zlog[i - 1].state

\* C20: once a zone has been invalidated or has expired it is never active
\* again, whatever candles follow, and a step of a downstream stage leaves
\* the zone's state as it was.
C20_ZoneMonotone ==
    /\ \A i, j \in 1..Len(zlog) :
           (i < j /\ zlog[i].state \in {"invalidated", "expired"})
               => zlog[j].state # "active"
    /\ \A i \in 1..Len(zlog) :
           zlog[i].by \in DownstreamStages => zlog[i].state = StateBefore(i)
    /\ Len(zlog) >= 1 => zn.state = zlog[Len(zlog)].state

\* A zone that was invalidated or expired, was then read downstream and saw
\* a further candle that did not reach it.
C20_Witness ==
    \E i, j, k \in 1..Len(zlog) :
        /\ i < j /\ j < k
        /\ zlog[i].state \in {"invalidated", "expired"}
        /\ zlog[j].by \in DownstreamStages
        /\ zlog[k].by = "candle"
        /\ zlog[k].state = zlog[i].state

(***************************************************************************)
(* Properties of the two stages composed                                   *)
(***************************************************************************)

ExampleDone == Len(pout) = 2
Produced == pout[1]
Validation == pout[2]

OversoldWithMomentum ==
    /\ pin.rsi < 300 /\ pin.macd_histogram > 0
    /\ pin.price_change_24h >= -3000 /\ pin.volume_ratio >= 30

\* a raw confidence of a RawSignal: a number from 0 to 100
RawSignalConfidence == pin.confidence >= 0 /\ pin.confidence <= 100

\* C22: for every raw confidence (of a RawSignal: 0 to 100), RSI < 30,
\* positive histogram, 24h change >= -30% and volume ratio >= 0.3, the
\* composed result is BUY, not inverted, valid, with final confidence
\* min(100, raw + 20); and whatever number the raw confidence is, the
\* result is BUY, not inverted and valid.
C22_ExampleRaised ==
    (ExampleDone /\ OversoldWithMomentum) =>
        /\ Validation.final_signal = "BUY"
        /\ ~Validation.was_inverted
        /\ Validation.is_valid
        /\ RawSignalConfidence =>
               Validation.final_confidence = Min(100, pin.confidence + 20)

\* The BTC example: RSI 17, histogram 0.0015, raw confidence 55 -> BUY 75.
C22_Witness ==
    /\ ExampleDone
    /\ pin.rsi = 170 /\ pin.macd_histogram = 15 /\ pin.confidence = 55
    /\ pin.price_change_24h = -350 /\ pin.volume_ratio = 140
    /\ Validation.final_signal = "BUY"
    /\ Validation.final_confidence = 75

\* C23: whenever determine_direction returns BUY or SELL, validate_and_fix
\* on that direction with the same RSI and histogram does not invert it:
\* was_inverted stays false and the final direction is not the other side.
C23_Claim ==
    (ExampleDone /\ Produced.direction \in {"BUY", "SELL"}) =>
        /\ ~Validation.was_inverted
        /\ Validation.final_signal # Opposite(Produced.direction)

(***************************************************************************)
(* Properties of the validation result's flags                             *)
(***************************************************************************)

OppositeSide(original, final) ==
    original \in {"BUY", "SELL"} /\ final = Opposite(original)

\* C24: in every result of validate_and_fix for an input direction of BUY,
\* SELL or NEUTRAL: is_valid is false exactly when the final direction
\* differs from the original one; was_inverted is true exactly when the final
\* direction is the opposite side of the original; a final direction of WAIT
\* carries final confidence 0; and original_signal and original_confidence
\* are the direction and the confidence that were passed in.
C24_FlagsConsistent ==
    Validated =>
        /\ ~R1.is_valid <=> R1.final_signal # R1.original_signal
        /\ R1.was_inverted <=> OppositeSide(R1.original_signal, R1.final_signal)
        /\ R1.final_signal = "WAIT" => R1.final_confidence = 0
        /\ R1.original_signal = vin.signal_direction
        /\ R1.original_confidence = vin.confidence

\* An out-of-range confidence on a signal rejected for a 24h fall beyond 30%.
C24_Witness ==
    /\ Validated
    /\ vin.confidence = 130 /\ vin.price_change_24h < -3000
    /\ R1.final_signal = "WAIT" /\ R1.final_confidence = 0
    /\ ~R1.is_valid /\ ~R1.was_inverted
    /\ R1.original_confidence = 130

(***************************************************************************)
(* Properties of the shared signal log                                     *)
(***************************************************************************)

LoggersSettled ==
    /\ \A p \in Loggers : lproc[p].pc \in {"idle", "ready"}
    /\ \E p \in Loggers : lproc[p].pc = "ready"

CompletedLogs == {<<p, k>> \in Loggers \X (1..MaxLogs) : k <= lproc[p].logged}

\* C25: under any interleaving of processes that each construct a
\* SignalLogger on the same path and call log_signal, once no constructor is
\* in progress the file is exactly one header row followed by one 13-field
\* row per completed log_signal call: no row is lost or overwritten and the
\* header is never written twice.
C25_Claim ==
    LoggersSettled =>
        /\ Len(lfile.rows) = 1 + Cardinality(CompletedLogs)
        /\ lfile.rows[1] = header_row
        /\ \A i \in 2..Len(lfile.rows) :
               /\ lfile.rows[i].kind = "row"
               /\ Len(lfile.rows[i].layout) = CsvColumns
        /\ \A c \in CompletedLogs :
               \E i \in 2..Len(lfile.rows) :
                   /\ lfile.rows[i].kind = "row"
                   /\ lfile.rows[i].by = c[1] /\ lfile.rows[i].call = c[2]

(***************************************************************************)
(* Properties of the scoring kernels                                       *)
(***************************************************************************)

InUnitInterval(s) == s[1] /\ 0 <= s[2] /\ s[2] <= ScoreOne

\* C26: for every feature matrix and weight vector with as many weights as
\* columns, element i of batch_score_signals(M, w) equals
\* calculate_scam_score(M[i], w), and every score either function returns is
\* within [0, 1].
C26_BatchAgrees ==
    \A k \in 1..Len(sout) :
        /\ \A j \in 1..Len(sout[k].scores) : InUnitInterval(sout[k].scores[j])
        /\ k >= 2 => sout[k].scores[1] = sout[1].scores[sout[k].row]

\* Two rows scored both ways: one clipped from above 1, one holding a NaN.
C26_Witness ==
    /\ Len(sout) = 3
    /\ Len(sin.weights) = 2
    /\ sout[1].scores = << Num(ScoreOne), Num(0) >>
    /\ sin.features_matrix[1][1] = Num(150)
    /\ \E j \in 1..2 : sin.features_matrix[2][j] = NaN
    /\ sout[2].scores[1] = Num(ScoreOne) /\ sout[3].scores[1] = Num(0)

(***************************************************************************)
(* Properties of the deployment script                                     *)
(***************************************************************************)

StepRan(step) == \E i \in 1..Len(dp.ran) : dp.ran[i].step = step
StepSucceeded(step) ==
    \E i \in 1..Len(dp.ran) : dp.ran[i].step = step /\ dp.ran[i].status = 0
Printed(line) == \E i \in 1..Len(dp.printed) : dp.printed[i] = line

StepFailed(i) == dp.ran[i].failed

\* C27: the steps run in script order; services are restarted only after
\* sync and install returned 0 (and training, in full mode); a failure of
\* training, sync or install ends the script before any later step; no
\* step other than cleanup fails without ending the script; quick mode
\* leaves out exactly the training step.
C27_Claim ==
    /\ \A i \in 1..Len(dp.ran) : dp.ran[i].step = deploy_steps(dp.mode)[i]
    /\ StepRan("start") =>
           /\ StepSucceeded("sync") /\ StepSucceeded("install")
           /\ dp.mode = "full" => StepSucceeded("training")
    /\ \A i \in 1..Len(dp.ran) :
           (dp.ran[i].step \in {"training", "sync", "install"}
                /\ StepFailed(i))
               => /\ i = Len(dp.ran)
                  /\ dp.pc = "aborted" /\ dp.exit = dp.ran[i].status
    /\ \A i \in 1..Len(dp.ran) :
           (StepFailed(i) /\ dp.ran[i].step # "cleanup")
               => i = Len(dp.ran) /\ dp.pc = "aborted"
    /\ (dp.ran # << >> /\ dp.ran[Len(dp.ran)].step = "cleanup")
           => dp.pc = "sync"
    /\ dp.mode = "quick" =>
           /\ ~StepRan("training")
           /\ dp.pc = "finished" => Len(dp.ran) = 6
    /\ (dp.mode = "full" /\ dp.pc = "finished") => Len(dp.ran) = 7

\* C28: 'All services started' and 'DEPLOYMENT COMPLETE' are printed only if
\* the restart of each of the three units succeeded, and the latter only if
\* all three are also active at the verification step.
C28_Claim ==
    /\ Printed("All services started") =>
           \A u \in ServiceUnits : dp.restart[u] = "ok"
    /\ Printed("DEPLOYMENT COMPLETE") =>
           \A u \in ServiceUnits :
               dp.restart[u] = "ok" /\ dp.active[u] = "ok"

(***************************************************************************)
(* Properties of the file-sync script                                      *)
(***************************************************************************)

\* C29: the script attempts all 11 listed files even after a failure and
\* ends with SUCCESS + FAILED = 11; it exits 0 exactly when every file was
\* found locally and copied successfully, and 1 otherwise; and a file whose
\* remote directory creation failed is never counted as a success.
C29_Claim ==
    /\ sy.pc = "done" =>
           /\ sy.index = 11
           /\ sy.SUCCESS + sy.FAILED = 11
           /\ sy.exit = 0 <=> sy.copied = 11
           /\ sy.exit \in {0, 1}
    /\ sy.unmade = 0

(***************************************************************************)
(* Properties of calculate_volatility's domain                             *)
(***************************************************************************)

StrictlyPositive(prices) == \A i \in DOMAIN prices : prices[i] > 0

\* C30: calculate_volatility(prices, window) is well defined (no division
\* by zero, no negative-length allocation) for every window with
\* 2 <= window <= n and strictly positive prices.
C30_Claim ==
    (/\ kout.kernel = "calculate_volatility"
     /\ 2 <= kw /\ kw <= ArrLen(kp)
     /\ StrictlyPositive(kp))
        => kout.a.err = "none"

====
